---- MODULE Spec2Model ----
(***************************************************************************)
(* marmot-cli: credential resolution, the bunker config sidecar file, the  *)
(* unified signer with its audit log, and the receive / listen pipeline.   *)
(*                                                                         *)
(* The specifications share   the variables below:                           *)
(*   SpecResolve  SigningMode::resolve applied to bounded inputs           *)
(*   SpecConfig   the commands that write the config file (init, migrate, *)
(*                MarmotCli::new, delete), each save step by step          *)
(*   SpecSaveLoad BunkerConfig::save step by step beside a concurrent      *)
(*                BunkerConfig::load of the same database path             *)
(*   SpecListen   the Receive command and the Listen loop                  *)
(*   SpecSigner   callers of sign_event / gift_wrap / extract_rumor        *)
(*   SpecGroup    resolve_group_id applied to bounded inputs               *)
(*   SpecAccept   the pipeline beside explicit accept-welcome commands     *)
(*   SpecBatch    a caller of sign_events                                  *)
(*   SpecBroker   MarmotCli::new and then the callers of its signer        *)
(*   SpecAudit    record calls on one AuditLog                             *)
(***************************************************************************)
EXTENDS Integers, Sequences, FiniteSets, TLC

VARIABLES
    inodes,     \* file system: inode id -> [content, mode]
    dir,        \* file system: path ("final", "tmp") -> inode id, 0 when absent
    clock,      \* chrono::Utc::now(), one tick per reading
    auditFile,  \* lines of <db>.audit.jsonl
    w,          \* the command process of SpecConfig
    rd,         \* the concurrent BunkerConfig::load of SpecSaveLoad
    rq,         \* SpecResolve: inputs and result of SigningMode::resolve
    stored,     \* history: the config last put in place at the final path, if any
    ls,         \* the Receive command or the Listen loop
    eng,        \* the group engine (MDK) and what it has stored
    gh,         \* history of the current pass of receive_messages and its callbacks
    orphans,    \* callback subprocesses that were spawned and never waited for
    gr,         \* SpecGroup: inputs and result of resolve_group_id
    sg,         \* SpecSigner: the callers of one MarmotSigner
    lock        \* SpecSigner: the holder of the audit mutex

cfgVars == <<inodes, dir, clock, w, rd, rq, stored>>
pipeVars == <<ls, eng, gh, orphans>>
sgnVars == <<sg, lock>>
vars == <<cfgVars, auditFile, pipeVars, sgnVars, gr>>

-----------------------------------------------------------------------------
(* Bounds of the model *)

\* longest relay list of a bunker URI
MaxRelays == 2
\* readings of the clock after which no new command starts
MaxClock == 4
\* tokens one write(2) of fs::write transfers
ChunkTokens == 5
\* longest prefix given to resolve_group_id, in characters
MaxPrefix == 3
\* most groups the engine holds when resolve_group_id is called
MaxGroups == 3

-----------------------------------------------------------------------------
(* Option and Result values *)

NoneV == <<>>
Some(x) == <<x>>
IsSome(o) == Len(o) > 0
Unwrap(o) == o[1]

Ok(v) == [ok |-> TRUE, val |-> <<v>>, err |-> ""]
Err(e) == [ok |-> FALSE, val |-> <<>>, err |-> e]
Val(r) == r.val[1]

-----------------------------------------------------------------------------
(* Keys, relay urls, connection descriptors *)

\* hex strings that PublicKey::from_hex accepts
PubKeys == {"S1", "S2", "pA", "pB"}
SignerKeys == {"S1", "S2"}
UserSecretKeys == {"kA", "kB"}
\* strings that RelayUrl::parse accepts
RelayUrls == {"r1", "r2"}
RelayStrings == RelayUrls \cup {"bad"}

\* Keys::public_key
PublicKeyOf(sk) ==
    CASE sk = "kA" -> "pA"
      [] sk = "kB" -> "pB"
      [] OTHER -> "pX"

\* Keys::generate: a key no earlier call returned (calls are told apart by the
\* clock reading that follows them in from_bunker_uri)
KeyNames == <<"c1", "c2", "c3", "c4", "c5", "c6", "c7", "c8">>
GeneratedKey(n) == KeyNames[n]

RECURSIVE SeqsUpTo(_, _)
SeqsUpTo(S, n) ==
    IF n = 0 THEN {<<>>}
    ELSE LET shorter == SeqsUpTo(S, n - 1)
         IN shorter \cup {Append(s, x) : s \in {t \in shorter : Len(t) = n - 1}, x \in S}

\* A descriptor string, by its parts: scheme://host?relay=..&relay=..&secret=..
\* scheme "other" stands for any string that is no connection descriptor.
Uris ==
    [scheme : {"bunker", "nostrconnect", "other"},
     host : SignerKeys \cup {"zz"},
     relays : SeqsUpTo(RelayStrings, MaxRelays),
     secret : {NoneV, Some("tok")}]

\* NostrConnectURI::parse
NostrConnectURIParse(uri) ==
    IF uri.scheme \notin {"bunker", "nostrconnect"} THEN Err("InvalidUri")
    ELSE IF uri.host \notin PubKeys THEN Err("InvalidPublicKey")
    ELSE IF \E i \in 1..Len(uri.relays) : uri.relays[i] \notin RelayUrls
         THEN Err("InvalidRelayUrl")
    ELSE Ok([variant |-> IF uri.scheme = "bunker" THEN "Bunker" ELSE "Client",
             public_key |-> uri.host,
             relays |-> uri.relays,
             secret |-> uri.secret])

-----------------------------------------------------------------------------
(* BunkerConfig *)

BunkerConfig(rsp, relays, secret, csk, upk, created, last) ==
    [remote_signer_pubkey |-> rsp, relays |-> relays, secret |-> secret,
     client_secret_key |-> csk, user_pubkey |-> upk,
     created_at |-> created, last_connected |-> last]

\* (mutant) from_bunker_uri without the relays.is_empty() check
from_bunker_uri_any_relays(uri, freshKey, now) ==
    LET parsed == NostrConnectURIParse(uri)
    IN IF ~parsed.ok THEN Err("Invalid bunker:// URI format")
       ELSE IF Val(parsed).variant = "Client"
            THEN Err("Expected bunker:// URI, got nostrconnect:// URI")
       ELSE Ok(BunkerConfig(Val(parsed).public_key, Val(parsed).relays,
                            Val(parsed).secret, freshKey, NoneV, now, NoneV))

\* (mutant) from_bunker_uri taking a nostrconnect:// descriptor as a bunker one
from_bunker_uri_any_scheme(uri, freshKey, now) ==
    LET parsed == NostrConnectURIParse(uri)
    IN IF ~parsed.ok THEN Err("Invalid bunker:// URI format")
       ELSE IF Len(Val(parsed).relays) = 0
            THEN Err("Bunker URI must include at least one relay")
       ELSE Ok(BunkerConfig(Val(parsed).public_key, Val(parsed).relays,
                            Val(parsed).secret, freshKey, NoneV, now, NoneV))

\* BunkerConfig::from_bunker_uri, given the key Keys::generate returns and the time
from_bunker_uri(uri, freshKey, now) ==
    LET parsed == NostrConnectURIParse(uri)
    IN IF ~parsed.ok THEN Err("Invalid bunker:// URI format")
       ELSE IF Val(parsed).variant = "Client"
            THEN Err("Expected bunker:// URI, got nostrconnect:// URI")
       ELSE IF Len(Val(parsed).relays) = 0
            THEN Err("Bunker URI must include at least one relay")
       ELSE Ok(BunkerConfig(Val(parsed).public_key, Val(parsed).relays,
                            Val(parsed).secret, freshKey, NoneV, now, NoneV))

\* BunkerConfig::to_nostr_connect_uri: relays that do not parse are dropped
to_nostr_connect_uri(c) ==
    IF c.remote_signer_pubkey \notin PubKeys
    THEN Err("Invalid stored remote signer pubkey")
    ELSE Ok([variant |-> "Bunker",
             public_key |-> c.remote_signer_pubkey,
             relays |-> SelectSeq(c.relays, LAMBDA r : r \in RelayUrls),
             secret |-> c.secret])

\* BunkerConfig::client_keys
client_keys(c) ==
    IF c.client_secret_key = "badhex" THEN Err("Invalid stored client secret key")
    ELSE Ok(c.client_secret_key)

\* BunkerConfig::cached_user_pubkey
cached_user_pubkey(c) ==
    IF IsSome(c.user_pubkey) /\ Unwrap(c.user_pubkey) \in PubKeys
    THEN c.user_pubkey ELSE NoneV

\* (mutant) update_connected stamping created_at as well
update_connected_restamping(c, user_pubkey, now) ==
    [c EXCEPT !.last_connected = Some(now), !.created_at = now,
              !.user_pubkey = IF IsSome(user_pubkey) THEN user_pubkey ELSE @]

\* BunkerConfig::update_connected, given the time
update_connected(c, user_pubkey, now) ==
    [c EXCEPT !.last_connected = Some(now),
              !.user_pubkey = IF IsSome(user_pubkey) THEN user_pubkey ELSE @]

-----------------------------------------------------------------------------
(* The JSON document of a config: a sequence of tokens, "{", one per field, "}" *)

JStr(s) == [t |-> "str", s |-> s, n |-> 0, l |-> <<>>]
JTime(n) == [t |-> "str", s |-> "rfc3339", n |-> n, l |-> <<>>]
JArr(l) == [t |-> "arr", s |-> "", n |-> 0, l |-> l]
JNull == [t |-> "null", s |-> "", n |-> 0, l |-> <<>>]
Tok(k, v) == [k |-> k, v |-> v]

JOptStr(o) == IF IsSome(o) THEN JStr(Unwrap(o)) ELSE JNull
JOptTime(o) == IF IsSome(o) THEN JTime(Unwrap(o)) ELSE JNull

\* (mutant) a serialization that leaves the connection secret out
SerializeWithoutSecret(c) ==
    << Tok("{", JNull),
       Tok("remote_signer_pubkey", JStr(c.remote_signer_pubkey)),
       Tok("relays", JArr(c.relays)),
       Tok("client_secret_key", JStr(c.client_secret_key)),
       Tok("user_pubkey", JOptStr(c.user_pubkey)),
       Tok("created_at", JTime(c.created_at)),
       Tok("last_connected", JOptTime(c.last_connected)),
       Tok("}", JNull) >>

\* serde_json::to_string_pretty(&BunkerConfig)
Serialize(c) ==
    << Tok("{", JNull),
       Tok("remote_signer_pubkey", JStr(c.remote_signer_pubkey)),
       Tok("relays", JArr(c.relays)),
       Tok("secret", JOptStr(c.secret)),
       Tok("client_secret_key", JStr(c.client_secret_key)),
       Tok("user_pubkey", JOptStr(c.user_pubkey)),
       Tok("created_at", JTime(c.created_at)),
       Tok("last_connected", JOptTime(c.last_connected)),
       Tok("}", JNull) >>

FieldIdx(doc, k) == {i \in 2..(Len(doc) - 1) : doc[i].k = k}
Field(doc, k) == doc[CHOOSE i \in FieldIdx(doc, k) : TRUE].v

\* a required String / Vec<String> field, an Option<String> field
HasTyped(doc, k, ty) == Cardinality(FieldIdx(doc, k)) = 1 /\ Field(doc, k).t = ty
HasOpt(doc, k) ==
    \/ FieldIdx(doc, k) = {}
    \/ Cardinality(FieldIdx(doc, k)) = 1 /\ Field(doc, k).t \in {"str", "null"}

OptStr(doc, k) ==
    IF FieldIdx(doc, k) = {} \/ Field(doc, k).t = "null" THEN NoneV
    ELSE Some(Field(doc, k).s)
OptTime(doc, k) ==
    IF FieldIdx(doc, k) = {} \/ Field(doc, k).t = "null" THEN NoneV
    ELSE Some(Field(doc, k).n)

\* a complete JSON object holding the fields BunkerConfig's Deserialize needs
WellFormed(doc) ==
    /\ Len(doc) >= 2
    /\ doc[1].k = "{"
    /\ doc[Len(doc)].k = "}"
    /\ \A i \in 2..(Len(doc) - 1) : doc[i].k \notin {"{", "}"}
    /\ HasTyped(doc, "remote_signer_pubkey", "str")
    /\ HasTyped(doc, "relays", "arr")
    /\ HasTyped(doc, "client_secret_key", "str")
    /\ HasTyped(doc, "created_at", "str")
    /\ HasOpt(doc, "secret")
    /\ HasOpt(doc, "user_pubkey")
    /\ HasOpt(doc, "last_connected")

\* serde_json::from_str::<BunkerConfig>
Deserialize(doc) ==
    IF ~WellFormed(doc) THEN Err("Failed to parse bunker config")
    ELSE Ok(BunkerConfig(Field(doc, "remote_signer_pubkey").s,
                         Field(doc, "relays").l,
                         OptStr(doc, "secret"),
                         Field(doc, "client_secret_key").s,
                         OptStr(doc, "user_pubkey"),
                         Field(doc, "created_at").n,
                         OptTime(doc, "last_connected")))

-----------------------------------------------------------------------------
(* The file system under the database path *)

InodeIds == 1..3

NoFiles == [p \in {"final", "tmp"} |-> 0]
Exists(d, p) == d[p] # 0
FreeInode(ino, d, held) ==
    CHOOSE i \in InodeIds : i \notin (DOMAIN ino) \cup {d["final"], d["tmp"]} \cup held

\* inodes no path and no open file refers to are gone
Reap(ino, d, held) ==
    [i \in {j \in DOMAIN ino : j \in {d["final"], d["tmp"]} \cup held} |-> ino[i]]

\* BunkerConfig::load when nothing else runs between its steps
\* (mutant) a load for which a missing file is an error
load_missing_is_error(ino, d) ==
    IF ~Exists(d, "final") THEN Err("Failed to read bunker config")
    ELSE LET parsed == Deserialize(ino[d["final"]].content)
         IN IF parsed.ok THEN Ok(Some(Val(parsed))) ELSE parsed

load(ino, d) ==
    IF ~Exists(d, "final") THEN Ok(NoneV)
    ELSE LET parsed == Deserialize(ino[d["final"]].content)
         IN IF parsed.ok THEN Ok(Some(Val(parsed))) ELSE parsed

-----------------------------------------------------------------------------
(* SigningMode::resolve *)

\* an nsec argument by its parts: whether it starts with "nsec", and the secret
\* key it encodes ("bad" when the rest does not decode)
Nsecs == [bech32 : BOOLEAN, key : UserSecretKeys \cup {"bad"}]

\* Keys::parse / SecretKey::from_hex
ParseNsec(nsec) ==
    IF nsec.key = "bad"
    THEN Err(IF nsec.bech32 THEN "invalid bech32 secret key" ELSE "invalid hex secret key")
    ELSE Ok(nsec.key)

DirectKey(keys) == [mode |-> "DirectKey", keys |-> Some(keys), config |-> NoneV]
Bunker(config) == [mode |-> "Bunker", keys |-> NoneV, config |-> Some(config)]

NoCredentials == "No credentials provided"

\* (mutant) the explicit nsec outranks the explicit bunker URI
resolve_nsec_first(nsec, bunker_uri, ino, d, freshKey, now) ==
    IF IsSome(nsec)
    THEN LET keys == ParseNsec(Unwrap(nsec))
         IN IF keys.ok THEN Ok(DirectKey(Val(keys))) ELSE keys
    ELSE IF IsSome(bunker_uri)
    THEN LET config == from_bunker_uri(Unwrap(bunker_uri), freshKey, now)
         IN IF config.ok THEN Ok(Bunker(Val(config))) ELSE config
    ELSE LET loaded == load(ino, d)
         IN IF ~loaded.ok THEN loaded
            ELSE IF IsSome(Val(loaded)) THEN Ok(Bunker(Unwrap(Val(loaded))))
            ELSE Err(NoCredentials)

\* (mutant) a credential that does not parse is passed over for the next one
resolve_falling_through(nsec, bunker_uri, ino, d, freshKey, now) ==
    LET config == IF IsSome(bunker_uri)
                  THEN from_bunker_uri(Unwrap(bunker_uri), freshKey, now)
                  ELSE Err("none")
        keys == IF IsSome(nsec) THEN ParseNsec(Unwrap(nsec)) ELSE Err("none")
        loaded == load(ino, d)
    IN IF config.ok THEN Ok(Bunker(Val(config)))
       ELSE IF keys.ok THEN Ok(DirectKey(Val(keys)))
       ELSE IF loaded.ok /\ IsSome(Val(loaded)) THEN Ok(Bunker(Unwrap(Val(loaded))))
       ELSE Err(NoCredentials)

\* SigningMode::resolve(nsec, bunker_uri, db_path)
resolve(nsec, bunker_uri, ino, d, freshKey, now) ==
    IF IsSome(bunker_uri)
    THEN LET config == from_bunker_uri(Unwrap(bunker_uri), freshKey, now)
         IN IF config.ok THEN Ok(Bunker(Val(config))) ELSE config
    ELSE IF IsSome(nsec)
    THEN LET keys == ParseNsec(Unwrap(nsec))
         IN IF keys.ok THEN Ok(DirectKey(Val(keys))) ELSE keys
    ELSE LET loaded == load(ino, d)
         IN IF ~loaded.ok THEN loaded
            ELSE IF IsSome(Val(loaded)) THEN Ok(Bunker(Unwrap(Val(loaded))))
            ELSE Err(NoCredentials)

-----------------------------------------------------------------------------
(* SpecResolve: SigningMode::resolve on every combination of bounded inputs *)

\* configs a stored file may hold: written by this program, or edited by hand
StoredConfigs ==
    { BunkerConfig("S1", <<"r1">>, Some("tok"), "c1", NoneV, 1, NoneV),
      BunkerConfig("S2", <<"r1", "r2">>, NoneV, "c2", Some("pA"), 1, Some(2)),
      BunkerConfig("S1", <<>>, NoneV, "c1", NoneV, 1, NoneV),
      BunkerConfig("S1", <<"bad">>, NoneV, "c1", Some("pB"), 1, Some(1)) }

\* the stored file: none, a config's document, or a document cut short
StoredFiles ==
    {[kind |-> "absent", cfg |-> NoneV]}
    \cup [kind : {"config", "truncated"}, cfg : {Some(c) : c \in StoredConfigs}]

StoredContent(f) ==
    IF f.kind = "config" THEN Serialize(Unwrap(f.cfg))
    ELSE SubSeq(Serialize(Unwrap(f.cfg)), 1, ChunkTokens)

FileWith(content) == [content |-> content, mode |-> "0600"]

ConfigIdle == /\ w = [pc |-> "off"]
              /\ rd = [pc |-> "off"]
ResolveIdle == rq = [pc |-> "off"]
GroupIdle == gr = [pc |-> "off"]
PipeIdle == /\ ls = [pc |-> "off"]
            /\ eng = [pc |-> "off"]
            /\ gh = [pc |-> "off"]
            /\ orphans = 0
SignerIdle == /\ sg = [pc |-> "off"]
              /\ lock = "free"

InitResolve ==
    /\ \E f \in StoredFiles, nsec \in {NoneV} \cup {Some(n) : n \in Nsecs},
          uri \in {NoneV} \cup {Some(u) : u \in Uris} :
          /\ rq = [pc |-> "call", nsec |-> nsec, uri |-> uri, stored |-> f,
                   res |-> Err("pending")]
          /\ IF f.kind = "absent"
             THEN dir = NoFiles /\ inodes = <<>>
             ELSE /\ dir = [NoFiles EXCEPT !["final"] = 1]
                  /\ inodes = <<FileWith(StoredContent(f))>>
    /\ clock = 1
    /\ auditFile = <<>>
    /\ stored = NoneV
    /\ ConfigIdle
    /\ PipeIdle
    /\ SignerIdle
    /\ GroupIdle

\* the call SigningMode::resolve(nsec, bunker_uri, db_path) of MarmotCli::new
ResolveCall ==
    /\ rq.pc = "call"
    /\ rq' = [rq EXCEPT !.pc = "returned",
                        !.res = resolve(rq.nsec, rq.uri, inodes, dir,
                                        GeneratedKey(clock), clock)]
    /\ UNCHANGED <<inodes, dir, clock, auditFile, w, rd, stored>>
    /\ UNCHANGED <<pipeVars, sgnVars, gr>>

NextResolve == ResolveCall

SpecResolve == InitResolve /\ [][NextResolve]_vars

\* a descriptor from_bunker_uri is meant to accept
UriWellFormed(u) ==
    /\ u.scheme = "bunker"
    /\ u.host \in PubKeys
    /\ Len(u.relays) >= 1
    /\ \A i \in 1..Len(u.relays) : u.relays[i] \in RelayUrls

InputsWellFormed ==
    /\ IsSome(rq.uri) => UriWellFormed(Unwrap(rq.uri))
    /\ IsSome(rq.nsec) => Unwrap(rq.nsec).key # "bad"
    /\ rq.stored.kind # "truncated"

BuiltFromUri(mode, u) ==
    /\ mode.mode = "Bunker"
    /\ Unwrap(mode.config).remote_signer_pubkey = u.host
    /\ Unwrap(mode.config).relays = u.relays
    /\ Unwrap(mode.config).secret = u.secret

\* C1: with well-formed inputs, resolve returns Bunker built from the URI when a
\* URI is supplied, else DirectKey when an nsec is supplied, else Bunker of the
\* stored config when one exists, and an error exactly when none is present.
C1_ResolvePrecedence ==
    (rq.pc = "returned" /\ InputsWellFormed) =>
        /\ IsSome(rq.uri) =>
              rq.res.ok /\ BuiltFromUri(Val(rq.res), Unwrap(rq.uri))
        /\ (~IsSome(rq.uri) /\ IsSome(rq.nsec)) =>
              rq.res = Ok(DirectKey(Unwrap(rq.nsec).key))
        /\ (~IsSome(rq.uri) /\ ~IsSome(rq.nsec) /\ rq.stored.kind = "config") =>
              rq.res = Ok(Bunker(Unwrap(rq.stored.cfg)))
        /\ rq.res.ok <=>
              (IsSome(rq.uri) \/ IsSome(rq.nsec) \/ rq.stored.kind = "config")

\* all three credentials supplied and well formed: the URI wins
C1_Witness ==
    /\ rq.pc = "returned"
    /\ InputsWellFormed
    /\ IsSome(rq.uri) /\ IsSome(rq.nsec) /\ rq.stored.kind = "config"
    /\ rq.res.ok /\ Val(rq.res).mode = "Bunker"

-----------------------------------------------------------------------------
(* AuditLog *)

AuditEntry(now, operation, details) ==
    [timestamp |-> now, operation |-> operation, details |-> details]

\* (mutant) record opens the file for writing from its start
record_truncating(log, enabled, now, operation, details, ioOk) ==
    IF ~enabled THEN log
    ELSE IF ioOk THEN <<AuditEntry(now, operation, details)>>
    ELSE log

\* AuditLog::record: appends one line unless the log is disabled or the write fails
record(log, enabled, now, operation, details, ioOk) ==
    IF ~enabled THEN log
    ELSE IF ioOk THEN Append(log, AuditEntry(now, operation, details))
    ELSE log

\* whether the caller of record goes on after it: record returns () whatever
\* became of the serialization, the open and the write
after_record_fatal(ioOk) == ioOk
after_record(ioOk) == TRUE

-----------------------------------------------------------------------------
(* The commands that write the config file: main.rs and MarmotSigner::new *)

\* what the remote signer answers to get_public_key
SignerReplies == {Ok("pA"), Ok("pB"), Err("request timed out")}

\* NostrConnect::get_public_key after the optional
\* non_secure_set_user_public_key(cached): a key set beforehand is returned
\* without a round trip
get_public_key(cached, reply) ==
    IF IsSome(cached) THEN Ok(Unwrap(cached)) ELSE reply

\* a step's outcome: its result and the clock after it
Out(res, now) == [res |-> res, clock |-> now]

\* to_nostr_connect_uri()?, client_keys()?, NostrConnect::new, get_public_key
connect(config, cached, reply, what) ==
    IF ~to_nostr_connect_uri(config).ok THEN to_nostr_connect_uri(config)
    ELSE IF ~client_keys(config).ok THEN client_keys(config)
    ELSE LET pk == get_public_key(cached, reply)
         IN IF pk.ok THEN pk ELSE Err(what)

\* (mutant) migrate_to_bunker without step 2, the check for an existing config
migrate_no_check(uri, nsec, ino, d, reply, now) ==
    LET parsed == from_bunker_uri(uri, GeneratedKey(now), now)
    IN IF ~parsed.ok THEN Out(parsed, now)
       ELSE LET pk == connect(Val(parsed), NoneV, reply, "Failed to connect to bunker")
            IN IF ~pk.ok THEN Out(pk, now + 1)
               ELSE IF IsSome(nsec) /\ ~ParseNsec(Unwrap(nsec)).ok
                    THEN Out(ParseNsec(Unwrap(nsec)), now + 1)
               ELSE IF IsSome(nsec)
                       /\ PublicKeyOf(Val(ParseNsec(Unwrap(nsec)))) # Val(pk)
                    THEN Out(Err("Identity mismatch!"), now + 1)
               ELSE Out(Ok(update_connected(Val(parsed), Some(Val(pk)), now + 1)),
                        now + 2)

\* (mutant) migrate_to_bunker without step 4, the comparison with the nsec's key
migrate_unverified(uri, nsec, ino, d, reply, now) ==
    LET parsed == from_bunker_uri(uri, GeneratedKey(now), now)
        existing == load(ino, d)
    IN IF ~parsed.ok THEN Out(parsed, now)
       ELSE IF ~existing.ok THEN Out(existing, now + 1)
       ELSE IF IsSome(Val(existing))
            THEN Out(Err("A bunker configuration already exists"), now + 1)
       ELSE LET pk == connect(Val(parsed), NoneV, reply, "Failed to connect to bunker")
            IN IF ~pk.ok THEN Out(pk, now + 1)
               ELSE Out(Ok(update_connected(Val(parsed), Some(Val(pk)), now + 1)),
                        now + 2)

\* migrate_to_bunker, steps 1 to 5 up to the save: the config to save, or the error
migrate_to_bunker(uri, nsec, ino, d, reply, now) ==
    LET parsed == from_bunker_uri(uri, GeneratedKey(now), now)
        existing == load(ino, d)
    IN IF ~parsed.ok THEN Out(parsed, now)
       ELSE IF ~existing.ok THEN Out(existing, now + 1)
       ELSE IF IsSome(Val(existing))
            THEN Out(Err("A bunker configuration already exists"), now + 1)
       ELSE LET pk == connect(Val(parsed), NoneV, reply, "Failed to connect to bunker")
            IN IF ~pk.ok THEN Out(pk, now + 1)
               ELSE IF IsSome(nsec) /\ ~ParseNsec(Unwrap(nsec)).ok
                    THEN Out(ParseNsec(Unwrap(nsec)), now + 1)
               ELSE IF IsSome(nsec)
                       /\ PublicKeyOf(Val(ParseNsec(Unwrap(nsec)))) # Val(pk)
                    THEN Out(Err("Identity mismatch!"), now + 1)
               ELSE Out(Ok(update_connected(Val(parsed), Some(Val(pk)), now + 1)),
                        now + 2)

\* main, Commands::Init with a bunker URI, up to the save
init_bunker(uri, reply, now) ==
    LET parsed == from_bunker_uri(uri, GeneratedKey(now), now)
    IN IF ~parsed.ok THEN Out(parsed, now)
       ELSE LET pk == connect(Val(parsed), NoneV, reply, "Failed to connect to bunker")
            IN IF ~pk.ok THEN Out(pk, now + 1)
               ELSE Out(Ok(update_connected(Val(parsed), Some(Val(pk)), now + 1)),
                        now + 2)

\* MarmotSigner::new for SigningMode::Bunker(config), up to the save
signer_new_bunker(config, reply, now) ==
    LET pk == connect(config, cached_user_pubkey(config), reply,
                      "Failed to get public key from bunker")
    IN IF ~pk.ok THEN Out(pk, now)
       ELSE Out(Ok(update_connected(config, Some(Val(pk)), now)), now + 1)

\* the signer MarmotSigner::new returns
Signer(mode, public_key) == [mode |-> mode, public_key |-> public_key]

-----------------------------------------------------------------------------
(* SpecConfig: one command at a time, its save step by step *)

\* descriptors and nsec arguments given to the commands
CmdUris ==
    { [scheme |-> "bunker", host |-> "S1", relays |-> <<"r1">>, secret |-> Some("tok")],
      [scheme |-> "bunker", host |-> "S2", relays |-> <<"r1", "r2">>, secret |-> NoneV],
      [scheme |-> "nostrconnect", host |-> "S1", relays |-> <<"r1">>, secret |-> NoneV] }
CmdNsecs == {NoneV, Some([bech32 |-> TRUE, key |-> "kA"])}

NoArgs == [uri |-> NoneV, nsec |-> NoneV]
Args(uri, nsec) == [uri |-> uri, nsec |-> nsec]

\* the command process: where it is (pc), the command and its arguments, the
\* config it saves, its result; and, as history, the file at the final path
\* when the command began (pre) and whether one existed then (checked)
\* (reply: what the remote signer answers to get_public_key during the command)
WIdle == [pc |-> "idle", cmd |-> "none", args |-> NoArgs, cfg |-> NoneV,
          res |-> Err("none"), pre |-> NoneV, checked |-> NoneV,
          reply |-> Err("none")]
RIdle == [pc |-> "idle", fd |-> 0, res |-> Err("none"), cands |-> {}]

InitConfig ==
    /\ inodes = <<>>
    /\ dir = NoFiles
    /\ clock = 1
    /\ auditFile = <<>>
    /\ stored = NoneV
    /\ w = WIdle
    /\ rd = [pc |-> "off"]
    /\ ResolveIdle
    /\ PipeIdle
    /\ SignerIdle
    /\ GroupIdle

Held == IF rd.pc = "opened" THEN {rd.fd} ELSE {}

\* the history of a load in progress: every config in place since it began
Note(r, st) ==
    IF r.pc \in {"exists", "opened"} THEN [r EXCEPT !.cands = @ \cup {st}] ELSE r

Unit == "()"

\* no command is running
Ready == w.pc \in {"idle", "done"}

\* the file at the final path, if any
FinalFile == IF Exists(dir, "final") THEN Some(inodes[dir["final"]]) ELSE NoneV

\* where a command goes once it has its connected config: to config.save
after_handshake_unsaved(cmd) == IF cmd = "new" THEN "audit" ELSE "save_create"
after_handshake(cmd) == "save_create"

\* a command ends before its save, or goes on to save cfg
Begin(cmd, args, reply, out) ==
    /\ Ready
    /\ clock < MaxClock
    /\ clock' = out.clock
    /\ w' = IF out.res.ok
             THEN [pc |-> after_handshake(cmd), cmd |-> cmd, args |-> args,
                   cfg |-> Some(Val(out.res)), res |-> Err("running"),
                   pre |-> FinalFile, checked |-> Some(Exists(dir, "final")),
                   reply |-> reply]
             ELSE [pc |-> "done", cmd |-> cmd, args |-> args, cfg |-> NoneV,
                   res |-> out.res,
                   pre |-> FinalFile, checked |-> Some(Exists(dir, "final")),
                   reply |-> reply]
    /\ UNCHANGED <<inodes, dir, auditFile, rd, rq, stored>>
    /\ UNCHANGED <<pipeVars, sgnVars, gr>>

\* marmot-cli migrate-to-bunker <uri>, with or without NOSTR_NSEC
Migrate ==
    \E uri \in CmdUris, nsec \in CmdNsecs, reply \in SignerReplies :
        Begin("migrate", Args(Some(uri), nsec), reply,
              migrate_to_bunker(uri, nsec, inodes, dir, reply, clock))

\* marmot-cli init --bunker <uri>
InitBunker ==
    \E uri \in CmdUris, reply \in SignerReplies :
        Begin("init", Args(Some(uri), NoneV), reply, init_bunker(uri, reply, clock))

\* MarmotCli::new: SigningMode::resolve, then MarmotSigner::new
NewSigner ==
    \E uri \in {NoneV} \cup {Some(u) : u \in CmdUris}, nsec \in CmdNsecs,
       reply \in SignerReplies :
        LET mode == resolve(nsec, uri, inodes, dir, GeneratedKey(clock), clock)
            now == IF IsSome(uri) /\ mode.ok THEN clock + 1 ELSE clock
        IN IF ~mode.ok THEN Begin("new", Args(uri, nsec), reply, Out(mode, now))
           ELSE IF Val(mode).mode = "DirectKey"
           THEN /\ Ready
                /\ clock < MaxClock
                /\ w' = [WIdle EXCEPT !.pc = "done", !.cmd = "new",
                            !.args = Args(uri, nsec), !.pre = FinalFile,
                            !.checked = Some(Exists(dir, "final")),
                            !.reply = reply,
                            !.res = Ok(Signer("Direct",
                                              PublicKeyOf(Unwrap(Val(mode).keys))))]
                /\ UNCHANGED <<inodes, dir, clock, auditFile, rd, rq, stored>>
                /\ UNCHANGED <<pipeVars, sgnVars, gr>>
           ELSE Begin("new", Args(uri, nsec), reply,
                      signer_new_bunker(Unwrap(Val(mode).config), reply, now))

\* BunkerConfig::delete
Delete ==
    /\ Ready
    /\ Exists(dir, "final")
    /\ dir' = [dir EXCEPT !["final"] = 0]
    /\ inodes' = Reap(inodes, dir', Held)
    /\ stored' = NoneV
    /\ rd' = Note(rd, NoneV)
    /\ w' = [WIdle EXCEPT !.pc = "done", !.cmd = "delete", !.res = Ok(Unit),
                          !.pre = FinalFile, !.checked = Some(TRUE)]
    /\ UNCHANGED <<clock, auditFile, rq>>
    /\ UNCHANGED <<pipeVars, sgnVars, gr>>

\* (mutant) save writes the content straight to the final path
SaveInPlace == "final"

\* the path fs::write writes to: tmp_path, beside the final path
SaveTarget == "tmp"

Finished(res) == [w EXCEPT !.pc = "done", !.res = res]
Min(a, b) == IF a < b THEN a ELSE b

\* save: std::fs::write(&tmp_path, ..), the open with create and truncate
SaveCreate ==
    /\ w.pc = "save_create"
    /\ \/ /\ w' = [w EXCEPT !.pc = "save_write"]
          /\ IF Exists(dir, SaveTarget)
             THEN /\ inodes' = [inodes EXCEPT ![dir[SaveTarget]].content = <<>>]
                  /\ dir' = dir
             ELSE LET i == FreeInode(inodes, dir, Held)
                  IN /\ dir' = [dir EXCEPT ![SaveTarget] = i]
                     /\ inodes' = [j \in DOMAIN inodes \cup {i} |->
                                     IF j = i THEN [content |-> <<>>, mode |-> "default"]
                                     ELSE inodes[j]]
       \/ /\ w' = Finished(Err("Failed to write bunker config temp file"))
          /\ UNCHANGED <<inodes, dir>>
    /\ UNCHANGED <<clock, auditFile, rd, rq, stored>>
    /\ UNCHANGED <<pipeVars, sgnVars, gr>>

\* save: std::fs::write(&tmp_path, ..), one write of the content's next part
SaveWrite ==
    /\ w.pc = "save_write"
    /\ LET doc == Serialize(Unwrap(w.cfg))
           n == Len(inodes[dir[SaveTarget]].content)
           m == Min(n + ChunkTokens, Len(doc))
       IN \/ /\ inodes' = [inodes EXCEPT ![dir[SaveTarget]].content =
                                              @ \o SubSeq(doc, n + 1, m)]
             /\ w' = [w EXCEPT !.pc = IF m = Len(doc) THEN "save_rename"
                                      ELSE "save_write"]
          \/ /\ w' = Finished(Err("Failed to write bunker config temp file"))
             /\ UNCHANGED inodes
    /\ UNCHANGED <<dir, clock, auditFile, rd, rq, stored>>
    /\ UNCHANGED <<pipeVars, sgnVars, gr>>

\* save: std::fs::rename(&tmp_path, &path)
SaveRename ==
    /\ w.pc = "save_rename"
    /\ \/ /\ dir' = [p \in {"final", "tmp"} |->
                        IF p = "final" THEN dir[SaveTarget]
                        ELSE IF p = SaveTarget THEN 0 ELSE dir[p]]
          /\ inodes' = Reap(inodes, dir', Held)
          /\ stored' = w.cfg
          /\ rd' = Note(rd, w.cfg)
          /\ w' = [w EXCEPT !.pc = "save_chmod"]
       \/ /\ w' = Finished(Err("Failed to atomically save bunker config"))
          /\ UNCHANGED <<inodes, dir, stored, rd>>
    /\ UNCHANGED <<clock, auditFile, rq>>
    /\ UNCHANGED <<pipeVars, sgnVars, gr>>

\* save: std::fs::set_permissions(&path, 0o600)?, and the save's caller goes on
SaveChmod ==
    /\ w.pc = "save_chmod"
    /\ \/ /\ inodes' = [inodes EXCEPT ![dir["final"]].mode = "0600"]
          /\ w' = IF w.cmd = "new" THEN [w EXCEPT !.pc = "audit"]
                   ELSE Finished(Ok(Unit))
       \/ /\ w' = Finished(Err("set_permissions failed"))
          /\ UNCHANGED inodes
    /\ UNCHANGED <<dir, clock, auditFile, rd, rq, stored>>
    /\ UNCHANGED <<pipeVars, sgnVars, gr>>

\* MarmotSigner::new after the save: the bunker_connect audit entry, then Ok(Self)
AuditConnect ==
    /\ w.pc = "audit"
    /\ LET pk == Unwrap(Unwrap(w.cfg).user_pubkey)
       IN \E ioOk \in BOOLEAN :
             /\ auditFile' = record(auditFile, TRUE, clock, "bunker_connect", pk, ioOk)
             /\ w' = Finished(IF after_record(ioOk) THEN Ok(Signer("Bunker", pk))
                               ELSE Err("audit log"))
    /\ UNCHANGED <<inodes, dir, clock, rd, rq, stored>>
    /\ UNCHANGED <<pipeVars, sgnVars, gr>>

\* load in another process: path.exists()
LoadExists ==
    /\ rd.pc \in {"idle", "returned"}
    /\ rd' = IF Exists(dir, "final")
              THEN [pc |-> "exists", fd |-> 0, res |-> Err("running"), cands |-> {stored}]
              ELSE [pc |-> "returned", fd |-> 0, res |-> Ok(NoneV), cands |-> {stored}]
    /\ UNCHANGED <<inodes, dir, clock, auditFile, w, rq, stored>>
    /\ UNCHANGED <<pipeVars, sgnVars, gr>>

\* load: read_to_string opens the file
LoadOpen ==
    /\ rd.pc = "exists"
    /\ rd' = IF Exists(dir, "final")
              THEN [rd EXCEPT !.pc = "opened", !.fd = dir["final"]]
              ELSE [rd EXCEPT !.pc = "returned",
                              !.res = Err("Failed to read bunker config")]
    /\ UNCHANGED <<inodes, dir, clock, auditFile, w, rq, stored>>
    /\ UNCHANGED <<pipeVars, sgnVars, gr>>

\* load: read_to_string reads the open file, serde_json::from_str parses it
LoadRead ==
    /\ rd.pc = "opened"
    /\ LET parsed == Deserialize(inodes[rd.fd].content)
       IN rd' = [rd EXCEPT !.pc = "returned", !.fd = 0,
                           !.res = IF parsed.ok THEN Ok(Some(Val(parsed))) ELSE parsed]
    /\ inodes' = Reap(inodes, dir, {})
    /\ UNCHANGED <<dir, clock, auditFile, w, rq, stored>>
    /\ UNCHANGED <<pipeVars, sgnVars, gr>>

NextConfig ==
    \/ Migrate \/ InitBunker \/ NewSigner \/ Delete
    \/ SaveCreate \/ SaveWrite \/ SaveRename \/ SaveChmod \/ AuditConnect

SpecConfig == InitConfig /\ [][NextConfig]_vars

-----------------------------------------------------------------------------
(* SpecSaveLoad: saves of one process, one at a time, each step by step, and a
   load by another process of the same database path running beside them *)

\* the configs handed to save: fresh from a URI, and after update_connected
SaveConfigs ==
    { BunkerConfig("S1", <<"r1">>, Some("tok"), "c1", NoneV, 1, NoneV),
      BunkerConfig("S2", <<"r1", "r2">>, NoneV, "c3", Some("pB"), 3, Some(4)) }

InitSaveLoad ==
    /\ inodes = <<>>
    /\ dir = NoFiles
    /\ clock = 1
    /\ auditFile = <<>>
    /\ stored = NoneV
    /\ w = WIdle
    /\ rd = RIdle
    /\ ResolveIdle
    /\ PipeIdle
    /\ SignerIdle
    /\ GroupIdle

\* config.save(db_path) is called
SaveCall ==
    /\ Ready
    /\ \E c \in SaveConfigs :
          w' = [WIdle EXCEPT !.pc = "save_create", !.cmd = "save", !.cfg = Some(c),
                             !.pre = FinalFile,
                             !.checked = Some(Exists(dir, "final"))]
    /\ UNCHANGED <<inodes, dir, clock, auditFile, rd, rq, stored>>
    /\ UNCHANGED <<pipeVars, sgnVars, gr>>

NextSaveLoad ==
    \/ SaveCall \/ SaveCreate \/ SaveWrite \/ SaveRename \/ SaveChmod \/ Delete
    \/ LoadExists \/ LoadOpen \/ LoadRead

SpecSaveLoad == InitSaveLoad /\ [][NextSaveLoad]_vars

Saving == w.pc \in {"save_create", "save_write", "save_rename", "save_chmod"}

\* C3: a load running beside a save returns no file, the complete config that
\* was in place before, or the complete new one; it never reads a partly
\* written document (a parse error), whatever step the save is at.
C3_LoadNeverPartial ==
    rd.pc = "returned" =>
        \/ rd.res.ok /\ Val(rd.res) \in rd.cands
        \/ /\ rd.res.err = "Failed to read bunker config"
           /\ NoneV \in rd.cands

\* a load that began before the rename of a save replacing an earlier config and
\* returned a config while that save was still running
C3_Witness ==
    /\ rd.pc = "returned" /\ rd.res.ok /\ IsSome(Val(rd.res))
    /\ w.pc = "save_chmod" /\ IsSome(w.pre)
    /\ Cardinality(rd.cands) = 2

ConflictError == "A bunker configuration already exists"

Me == "pA"
\* public keys that author group messages
Senders == {"pA", "pB"}
\* gift-wrap envelopes a relay can hold for the local identity
GiftWraps == {"w1", "x1"}
\* the kind of the rumor sealed in a gift wrap
RumorKind(id) == IF id = "w1" THEN "MlsWelcome" ELSE "TextNote"
\* the groups the engine enumerates, in get_groups order
GroupList == <<"g1", "g2">>
\* group-message envelopes a relay can hold for a group
GroupMsgs(group) == IF group = "g1" THEN {"m1", "m2"} ELSE {"n1"}
\* longest answer of one fetch_events (the code asks for at most 100 / 50)
MaxFetch == 2
\* most callback children left behind at one time
MaxOrphans == 1
\* accept-welcome commands the user runs beside the pipeline
MaxAccepts == 1

\* client.fetch_events(filter, 10 s): a relay error, or some envelopes
Fetches(pool) == {Err("relay")} \cup {Ok(evs) : evs \in SeqsUpTo(pool, MaxFetch)}

\* signer.extract_rumor(event): the sealed rumor's kind, or an error (garbage
\* envelope, or the remote signer not answering)
Unwraps(id) == {Ok(RumorKind(id)), Err("unwrap")}

\* mdk.process_welcome(id, rumor): an error on an invitation already processed
ProcessWelcome(id, processed) ==
    IF id \in processed THEN {Err("welcome already processed")}
    ELSE {Ok(Unit), Err("invalid welcome")}

\* the outcomes of mdk.process_message
Outcome(kind, pubkey) == [kind |-> kind, pubkey |-> pubkey]
ErrOutcome == Outcome("Err", "")
AppOutcomes == {Outcome("ApplicationMessage", s) : s \in Senders}
QuietOutcomes == {Outcome("Commit", ""), Outcome("Other", "")}
\* mdk.process_message(event): an envelope the engine has already processed is
\* not delivered as an ApplicationMessage again
ProcessMessage(id, seen) ==
    IF id \in seen THEN {ErrOutcome, Outcome("Other", "")}
    ELSE AppOutcomes \cup QuietOutcomes \cup {ErrOutcome}

\* the MessagePayload pushed for an ApplicationMessage
MessagePayload(id, group, pubkey) ==
    [message_id |-> id, group_id |-> group, sender_hex |-> pubkey,
     is_me |-> (pubkey = Me)]

\* whether an envelope goes on to mdk.process_welcome: the match on
\* extract_rumor's result and the test of the rumor's kind
is_welcome_any_kind(un) == un.ok
is_welcome(un) == un.ok /\ Val(un) = "MlsWelcome"

\* the match on process_welcome's result: <<welcomes_found>> afterwards
on_welcome_counting_errors(found, res) == found + 1
on_welcome(found, res) == IF res.ok THEN found + 1 ELSE found

\* the match on process_message's result: messages_found and payloads afterwards
on_message_counting_commits(found, pl, id, group, out) ==
    IF out.kind = "ApplicationMessage"
    THEN [found |-> found + 1, payloads |-> Append(pl, MessagePayload(id, group, out.pubkey))]
    ELSE IF out.kind = "Commit" THEN [found |-> found + 1, payloads |-> pl]
    ELSE [found |-> found, payloads |-> pl]
on_message_prepending(found, pl, id, group, out) ==
    IF out.kind = "ApplicationMessage"
    THEN [found |-> found + 1, payloads |-> <<MessagePayload(id, group, out.pubkey)>> \o pl]
    ELSE [found |-> found, payloads |-> pl]
on_message(found, pl, id, group, out) ==
    IF out.kind = "ApplicationMessage"
    THEN [found |-> found + 1, payloads |-> Append(pl, MessagePayload(id, group, out.pubkey))]
    ELSE [found |-> found, payloads |-> pl]

\* whether the loop over a group's envelopes goes on after an outcome
message_loop_aborting(out) == out.kind # "Err"
message_loop_continues(out) == TRUE

\* the dispatch loop's test of a payload: is the callback invoked for it
dispatches_all(payload) == TRUE
dispatches(payload) == ~payload.is_me

\* the match on invoke_callback's result: does the Listen loop go on
after_callback_fatal(res) == res.ok
after_callback(res) == TRUE

\* the loop over the answer of get_pending_welcomes: the invitations accepted
\* afterwards
pending_listed_accepting(accepted, pending) == accepted \cup pending
pending_listed(accepted, pending) == accepted

\* `let mut payloads = Vec::new()` at the start of receive_messages: what a
\* pass starts with, given the payloads of the pass before
payloads_kept(previous) == previous
payloads_fresh(previous) == <<>>

\* what an error of a pass does to the command: the `?` at the call of
\* receive_messages returns it from main
on_pass_error(cmd) == "exited"

\* the locals of one pass, as receive_messages declares them
PassLocals ==
    [welcomes_found |-> 0, messages_found |-> 0, payloads |-> <<>>,
     events |-> <<>>, i |-> 1, groups |-> <<>>, g |-> 1, cb |-> 1]
\* the process of a command: its arguments, its position and its locals
Proc(cmd, script) ==
    [cmd |-> cmd, script |-> script, pc |-> "start", res |-> "none", l |-> PassLocals]
\* what one pass has been given and has done, kept beside the program
\* gw: the gift wraps fetched; tried: those handed to extract_rumor, each with
\* what became of it; fetched: the group messages fetched; fed: those handed to
\* process_message, each with its outcome; cbLog: the message ids
\* invoke_callback was called for; cbFailed: some callback did not return Ok(0)
PassHistory ==
    [gw |-> <<>>, tried |-> <<>>, fetched |-> <<>>, fed |-> <<>>,
     cbLog |-> <<>>, cbFailed |-> FALSE]
Did(id, what) == [id |-> id, what |-> what]
\* what the whole session has done
\* called: the message ids invoke_callback was called for in the session
\* accepts: the accept-welcome commands run so far, each with the event id it
\* was given and its result
History(pass, counted, spawned) ==
    [pass |-> pass, counted |-> counted, spawned |-> spawned, accepts |-> <<>>,
     called |-> {}]

Scripts == {NoneV, Some("cb.sh")}
InitListen ==
    /\ inodes = NoFiles
    /\ dir = [p \in {"final", "tmp"} |-> 0]
    /\ clock = 1
    /\ auditFile = <<>>
    /\ stored = NoneV
    /\ ConfigIdle
    /\ ResolveIdle
    /\ SignerIdle
    /\ GroupIdle
    /\ ls \in {Proc("receive", NoneV)} \cup {Proc("listen", sc) : sc \in Scripts}
    /\ eng = [welcomes |-> {}, accepted |-> {}, seen |-> {}, groups |-> GroupList]
    /\ gh = History(PassHistory, [id \in GiftWraps |-> 0], FALSE)
    /\ orphans = 0

\* receive_messages returns Err: main returns it
PassFails == ls' = [ls EXCEPT !.pc = on_pass_error(ls.cmd), !.res = "err"]

\* the position after the gift wrap at index i has been handled
AfterGiftWrap(l, i) == IF i > Len(l.events) THEN "pending" ELSE "welcomes"

\* phase 1, the fetch: locals are fresh, gift wraps for the local identity
FetchGiftWraps ==
    /\ ls.pc = "start"
    /\ \E r \in Fetches(GiftWraps) :
          IF r.ok
          THEN LET l == [PassLocals EXCEPT !.events = Val(r),
                                          !.payloads = payloads_fresh(ls.l.payloads)]
               IN /\ ls' = [ls EXCEPT !.l = l, !.pc = AfterGiftWrap(l, 1)]
                  /\ gh' = [gh EXCEPT !.pass = [PassHistory EXCEPT !.gw = Val(r)]]
          ELSE /\ PassFails
               /\ gh' = [gh EXCEPT !.pass = PassHistory]
    /\ UNCHANGED <<eng, orphans>>
    /\ UNCHANGED <<cfgVars, auditFile, sgnVars, gr>>

\* phase 1, one gift wrap: extract_rumor, then process_welcome for a welcome
ProcessGiftWrap ==
    /\ ls.pc = "welcomes"
    /\ LET l == ls.l
           id == l.events[l.i]
           next == [l EXCEPT !.i = l.i + 1]
       IN \E un \in Unwraps(id) :
             IF is_welcome(un)
             THEN \E res \in ProcessWelcome(id, eng.welcomes) :
                     LET found == on_welcome(l.welcomes_found, res)
                     IN /\ ls' = [ls EXCEPT !.l = [next EXCEPT !.welcomes_found = found],
                                            !.pc = AfterGiftWrap(l, l.i + 1)]
                        /\ eng' = [eng EXCEPT !.welcomes =
                                      IF res.ok THEN @ \cup {id} ELSE @]
                        /\ gh' = [gh EXCEPT
                                    !.pass.tried = Append(@, Did(id,
                                        IF res.ok THEN "welcomed"
                                        ELSE IF id \in eng.welcomes THEN "repeated"
                                        ELSE "refused")),
                                    !.counted[id] = @ + (found - l.welcomes_found)]
             ELSE /\ ls' = [ls EXCEPT !.l = next, !.pc = AfterGiftWrap(l, l.i + 1)]
                  /\ gh' = [gh EXCEPT !.pass.tried = Append(@, Did(id,
                                        IF un.ok THEN "not a welcome" ELSE "sealed"))]
                  /\ UNCHANGED eng
    /\ UNCHANGED orphans
    /\ UNCHANGED <<cfgVars, auditFile, sgnVars, gr>>

\* phase 2: get_pending_welcomes, printed when it answers
ListPending ==
    /\ ls.pc = "pending"
    /\ \E answered \in BOOLEAN :
          /\ ls' = [ls EXCEPT !.pc = "groups"]
          /\ eng' = IF answered
                    THEN [eng EXCEPT !.accepted =
                             pending_listed(@, eng.welcomes \ @)]
                    ELSE eng
    /\ UNCHANGED <<gh, orphans>>
    /\ UNCHANGED <<cfgVars, auditFile, sgnVars, gr>>

\* phase 3: get_groups
GetGroups ==
    /\ ls.pc = "groups"
    /\ \E r \in {Ok(eng.groups), Err("storage")} :
          IF r.ok
          THEN ls' = [ls EXCEPT !.l.groups = Val(r), !.l.g = 1,
                                !.pc = IF Val(r) = <<>> THEN "returned" ELSE "fetch"]
          ELSE PassFails
    /\ UNCHANGED <<eng, gh, orphans>>
    /\ UNCHANGED <<cfgVars, auditFile, sgnVars, gr>>

\* the locals and position after the envelope at index i of group g
AfterMessage(l, i) ==
    IF i <= Len(l.events) THEN [l |-> [l EXCEPT !.i = i], pc |-> "msgs"]
    ELSE IF l.g < Len(l.groups)
         THEN [l |-> [l EXCEPT !.i = i, !.g = l.g + 1], pc |-> "fetch"]
         ELSE [l |-> [l EXCEPT !.i = i], pc |-> "returned"]

\* phase 3, the fetch of one group's messages
FetchGroup ==
    /\ ls.pc = "fetch"
    /\ \E r \in Fetches(GroupMsgs(ls.l.groups[ls.l.g])) :
          IF r.ok
          THEN LET a == AfterMessage([ls.l EXCEPT !.events = Val(r)], 1)
               IN /\ ls' = [ls EXCEPT !.l = a.l, !.pc = a.pc]
                  /\ gh' = [gh EXCEPT !.pass.fetched = @ \o Val(r)]
          ELSE /\ PassFails
               /\ UNCHANGED gh
    /\ UNCHANGED <<eng, orphans>>
    /\ UNCHANGED <<cfgVars, auditFile, sgnVars, gr>>

\* phase 3, one envelope: process_message and the match on its result
ProcessGroupMessage ==
    /\ ls.pc = "msgs"
    /\ LET l == ls.l
           id == l.events[l.i]
           group == l.groups[l.g]
       IN \E out \in ProcessMessage(id, eng.seen) :
             LET m == on_message(l.messages_found, l.payloads, id, group, out)
                 a == AfterMessage([l EXCEPT !.messages_found = m.found,
                                             !.payloads = m.payloads], l.i + 1)
             IN /\ IF message_loop_continues(out)
                   THEN ls' = [ls EXCEPT !.l = a.l, !.pc = a.pc]
                   ELSE ls' = [ls EXCEPT !.pc = on_pass_error(ls.cmd), !.res = "err"]
                /\ eng' = [eng EXCEPT !.seen = IF out.kind = "Err" THEN @ ELSE @ \cup {id}]
                /\ gh' = [gh EXCEPT !.pass.fed = Append(@, Did(id, out.kind))]
    /\ UNCHANGED orphans
    /\ UNCHANGED <<cfgVars, auditFile, sgnVars, gr>>

\* receive_messages has returned Ok((welcomes_found, messages_found, payloads)):
\* Receive prints the counts and ends, Listen goes to its dispatch (the history
\* of the pass ends with the pass)
Returned ==
    /\ ls.pc = "returned"
    /\ ls' = IF ls.cmd = "receive" THEN [ls EXCEPT !.pc = "exited", !.res = "ok"]
             ELSE IF IsSome(ls.script) /\ ls.l.payloads # <<>>
                  THEN [ls EXCEPT !.pc = "dispatch", !.l.cb = 1]
                  ELSE [ls EXCEPT !.pc = "sleep"]
    /\ gh' = IF ls.cmd = "receive" THEN gh ELSE [gh EXCEPT !.pass = PassHistory]
    /\ UNCHANGED <<eng, orphans>>
    /\ UNCHANGED <<cfgVars, auditFile, sgnVars, gr>>

\* the Listen loop after invoke_callback has returned res for payload cb
CallbackReturns(res) ==
    /\ ls' = IF after_callback(res)
             THEN [ls EXCEPT !.l.cb = @ + 1,
                             !.pc = IF ls.l.cb < Len(ls.l.payloads)
                                    THEN "dispatch" ELSE "sleep"]
             ELSE [ls EXCEPT !.pc = "exited", !.res = "err"]
    /\ gh' = [gh EXCEPT !.pass.cbFailed = @ \/ res # Ok(0)]

\* the dispatch loop at payload cb: skip it, or invoke_callback up to the spawn
Dispatch ==
    /\ ls.pc = "dispatch"
    /\ LET payload == ls.l.payloads[ls.l.cb]
       IN IF ~dispatches(payload)
          THEN /\ ls' = [ls EXCEPT !.l.cb = @ + 1,
                                   !.pc = IF ls.l.cb < Len(ls.l.payloads)
                                          THEN "dispatch" ELSE "sleep"]
               /\ UNCHANGED gh
          ELSE \E spawned \in BOOLEAN :
                  LET called == [gh EXCEPT !.pass.cbLog = Append(@, payload.message_id),
                                           !.called = @ \cup {payload.message_id},
                                           !.spawned = @ \/ spawned]
                  IN IF spawned
                     THEN /\ ls' = [ls EXCEPT !.pc = "cb_write"]
                          /\ gh' = called
                     ELSE /\ ls' = IF after_callback(Err("Failed to spawn callback process"))
                                   THEN [ls EXCEPT !.l.cb = @ + 1,
                                                   !.pc = IF ls.l.cb < Len(ls.l.payloads)
                                                          THEN "dispatch" ELSE "sleep"]
                                   ELSE [ls EXCEPT !.pc = "exited", !.res = "err"]
                          /\ gh' = [called EXCEPT !.pass.cbFailed = TRUE]
    /\ UNCHANGED <<eng, orphans>>
    /\ UNCHANGED <<cfgVars, auditFile, sgnVars, gr>>

\* invoke_callback: the payload written to the child's stdin; a failed write
\* returns the error and leaves the child behind, neither waited for nor killed
CbWrite ==
    /\ ls.pc = "cb_write"
    /\ \E written \in BOOLEAN :
          IF written
          THEN /\ ls' = [ls EXCEPT !.pc = "cb_wait"]
               /\ UNCHANGED <<gh, orphans>>
          ELSE /\ orphans < MaxOrphans
               /\ CallbackReturns(Err("write"))
               /\ orphans' = orphans + 1
    /\ UNCHANGED eng
    /\ UNCHANGED <<cfgVars, auditFile, sgnVars, gr>>

\* invoke_callback: child.wait() and status.code().unwrap_or(-1)
CbWait ==
    /\ ls.pc = "cb_wait"
    /\ \E res \in {Ok(0), Ok(1), Ok(-1), Err("wait")} : CallbackReturns(res)
    /\ UNCHANGED <<eng, orphans>>
    /\ UNCHANGED <<cfgVars, auditFile, sgnVars, gr>>

\* tokio::time::sleep(interval), and the loop's next iteration
Sleep ==
    /\ ls.pc = "sleep"
    /\ ls' = [ls EXCEPT !.pc = "start",
                        !.l = [PassLocals EXCEPT !.payloads = payloads_fresh(ls.l.payloads)]]
    /\ gh' = [gh EXCEPT !.pass = PassHistory]
    /\ UNCHANGED <<eng, orphans>>
    /\ UNCHANGED <<cfgVars, auditFile, sgnVars, gr>>

\* a child left behind ends by itself
OrphanExit ==
    /\ orphans > 0
    /\ orphans' = orphans - 1
    /\ UNCHANGED <<ls, eng, gh>>
    /\ UNCHANGED <<cfgVars, auditFile, sgnVars, gr>>

\* the steps the command's own thread takes
LoopStep ==
    \/ FetchGiftWraps
    \/ ProcessGiftWrap
    \/ ListPending
    \/ GetGroups
    \/ FetchGroup
    \/ ProcessGroupMessage
    \/ Returned
    \/ Dispatch
    \/ CbWrite
    \/ CbWait
    \/ Sleep

NextListen ==
    \/ FetchGiftWraps
    \/ ProcessGiftWrap
    \/ ListPending
    \/ GetGroups
    \/ FetchGroup
    \/ ProcessGroupMessage
    \/ Returned
    \/ Dispatch
    \/ CbWrite
    \/ CbWait
    \/ Sleep
    \/ OrphanExit

SpecListen == InitListen /\ [][NextListen]_vars

\* a Listen session over a database with the single group g1
InitDispatch ==
    /\ inodes = NoFiles
    /\ dir = [p \in {"final", "tmp"} |-> 0]
    /\ clock = 1
    /\ auditFile = <<>>
    /\ stored = NoneV
    /\ ConfigIdle
    /\ ResolveIdle
    /\ SignerIdle
    /\ GroupIdle
    /\ ls = Proc("listen", Some("cb.sh"))
    /\ eng = [welcomes |-> {}, accepted |-> {}, seen |-> {}, groups |-> <<"g1">>]
    /\ gh = History(PassHistory, [id \in GiftWraps |-> 0], FALSE)
    /\ orphans = 0

\* the command's thread is scheduled as long as it has a step to take
SpecListenFair == InitDispatch /\ [][NextListen]_vars /\ WF_vars(LoopStep)

\* the group an invitation admits to
WelcomeGroup(id) == "g2"
\* what the user can type as the event id of accept-welcome
AcceptArgs == GiftWraps \cup {"zz"}
\* the outcome of a command: the engine afterwards and the result returned
Ended(e, res) == [eng |-> e, res |-> res]
\* MarmotCli::accept_welcome: the event id is parsed, the invitation is looked
\* up, the engine accepts it, and the groups are read back for the printout
accept_welcome(e, arg) ==
    IF arg \notin GiftWraps THEN {Ended(e, Err("Invalid event ID"))}
    ELSE {Ended(e, Err("get_welcome"))} \cup
         IF arg \notin e.welcomes THEN {Ended(e, Err("Welcome not found"))}
         ELSE LET g == WelcomeGroup(arg)
                  joined == [e EXCEPT !.accepted = @ \cup {arg},
                                      !.groups = IF \E k \in DOMAIN @ : @[k] = g
                                                 THEN @ ELSE Append(@, g)]
              IN {Ended(e, Err("accept_welcome")),
                  Ended(joined, Ok(Unit)),
                  Ended(joined, Err("get_groups"))}

\* Commands::AcceptWelcome, run by the user as a command of its own on the
\* same database
AcceptWelcome ==
    /\ Len(gh.accepts) < MaxAccepts
    /\ \E arg \in AcceptArgs : \E o \in accept_welcome(eng, arg) :
          /\ eng' = o.eng
          /\ gh' = [gh EXCEPT !.accepts = Append(@, [named |-> arg, res |-> o.res])]
    /\ UNCHANGED <<ls, orphans>>
    /\ UNCHANGED <<cfgVars, auditFile, sgnVars, gr>>

\* a database with the single group g1, used by a Receive command or a Listen
\* session while the user runs accept-welcome commands
InitAccept ==
    /\ inodes = NoFiles
    /\ dir = [p \in {"final", "tmp"} |-> 0]
    /\ clock = 1
    /\ auditFile = <<>>
    /\ stored = NoneV
    /\ ConfigIdle
    /\ ResolveIdle
    /\ SignerIdle
    /\ GroupIdle
    /\ ls \in {Proc("receive", NoneV), Proc("listen", Some("cb.sh"))}
    /\ eng = [welcomes |-> {}, accepted |-> {}, seen |-> {}, groups |-> <<"g1">>]
    /\ gh = History(PassHistory, [id \in GiftWraps |-> 0], FALSE)
    /\ orphans = 0

NextAccept ==
    \/ NextListen
    \/ AcceptWelcome
SpecAccept == InitAccept /\ [][NextAccept]_vars

(***************************************************************************)
(* Properties of the pipeline                                              *)
(***************************************************************************)
Ids(h) == [k \in DOMAIN h |-> h[k].id]
CountOf(h, what) == Cardinality({k \in DOMAIN h : h[k].what = what})
NotMe(payload) == ~payload.is_me
MessageIds(pl) == [k \in DOMAIN pl |-> pl[k].message_id]
InPass == ls.pc \in {"welcomes", "pending", "groups", "fetch", "msgs", "returned"}
PastWelcomes == ls.pc \in {"pending", "groups", "fetch", "msgs", "returned"}
InDispatch == ls.pc \in {"dispatch", "cb_write", "cb_wait", "sleep"}

\* C2: in listen mode an error of one pass does not terminate the loop
C2_ListenSurvivesPassError ==
    ls.cmd = "listen" => ~(ls.pc = "exited" /\ ls.res = "err")

\* C5: a pass that returns has fed every fetched group-message envelope to
\* process_message, in fetched order, whatever the outcomes were, and no step
\* that feeds an envelope to the engine ends the pass
C5_ProcessErrorContained ==
    /\ [](ls.pc = "returned" => Ids(gh.pass.fed) = gh.pass.fetched)
    /\ [][Len(gh.pass.fed') > Len(gh.pass.fed) =>
            /\ ls'.res = "none"
            /\ ls'.pc \in {"msgs", "fetch", "returned"}]_vars
\* an error on the first envelope of g1, a later envelope of g1 and one of g2
\* fed after it, and the pass has returned with a payload
C5_Witness ==
    /\ ls.pc = "returned"
    /\ Len(gh.pass.fed) = 3
    /\ gh.pass.fed[1].what = "Err"
    /\ gh.pass.fed[3].id = "n1"
    /\ ls.l.payloads # <<>>

\* C6: an invitation envelope is counted at most once however often it is
\* delivered; the count of a pass is the number of successful process_welcome
\* calls; every fetched gift wrap is handled and none of them ends the pass
C6_WelcomeCountedOnce ==
    /\ [](\A id \in GiftWraps : gh.counted[id] <= 1)
    /\ [](InPass => ls.l.welcomes_found = CountOf(gh.pass.tried, "welcomed"))
    /\ [](PastWelcomes => Ids(gh.pass.tried) = gh.pass.gw)
    /\ [][Len(gh.pass.tried') > Len(gh.pass.tried) =>
            /\ ls'.res = "none"
            /\ ls'.pc \in {"welcomes", "pending"}]_vars
\* a pass that returned after an invitation was delivered again and refused by
\* the engine, with a later gift wrap handled after it
C6_Witness ==
    /\ ls.pc = "returned"
    /\ Len(gh.pass.tried) = 2
    /\ gh.pass.tried[1] = Did("w1", "repeated")
    /\ gh.counted["w1"] = 1
    /\ ls.l.welcomes_found = 0

\* C7: when a pass returns, messages_found is the length of payloads and the
\* number of ApplicationMessage outcomes, and the payloads are those envelopes
C7_CountMatchesPayloads ==
    ls.pc = "returned" =>
        /\ ls.l.messages_found = Len(ls.l.payloads)
        /\ ls.l.messages_found = CountOf(gh.pass.fed, "ApplicationMessage")
        /\ MessageIds(ls.l.payloads) =
              Ids(SelectSeq(gh.pass.fed, LAMBDA d : d.what = "ApplicationMessage"))
\* a returned pass with an ApplicationMessage, a Commit and an error
C7_Witness ==
    /\ ls.pc = "returned"
    /\ CountOf(gh.pass.fed, "ApplicationMessage") = 1
    /\ CountOf(gh.pass.fed, "Commit") = 1
    /\ CountOf(gh.pass.fed, "Err") = 1

\* the payloads the dispatch loop has passed at its current position
Passed ==
    SubSeq(ls.l.payloads, 1,
           IF ls.pc = "dispatch" THEN ls.l.cb - 1
           ELSE IF ls.pc = "sleep" THEN Len(ls.l.payloads) ELSE ls.l.cb)

\* C8: with a callback configured the callback has been invoked, at every point
\* of the dispatch, exactly for the payloads passed so far whose is_me is false,
\* once each and in payload order, and after the dispatch for all of them;
\* is_me is true exactly for the local identity's messages; with no callback
\* configured no subprocess is ever spawned
C8_CallbackPerForeignPayload ==
    /\ \A k \in DOMAIN ls.l.payloads :
          ls.l.payloads[k].is_me <=> ls.l.payloads[k].sender_hex = Me
    /\ (InDispatch /\ IsSome(ls.script)) =>
          gh.pass.cbLog = MessageIds(SelectSeq(Passed, NotMe))
    /\ ls.script = NoneV =>
          /\ ~gh.spawned
          /\ gh.pass.cbLog = <<>>
          /\ orphans = 0
          /\ ls.pc \notin {"dispatch", "cb_write", "cb_wait"}
\* the dispatch of a pass is over: three payloads, one of them the local
\* identity's, the callback invoked for the two others
C8_Witness ==
    /\ ls.pc = "sleep"
    /\ Len(ls.l.payloads) = 3
    /\ ls.l.payloads[2].is_me
    /\ Len(gh.pass.cbLog) = 2

\* C9: after a callback has failed (non-zero exit, no exit code, spawn, write
\* or wait failure) the dispatch still reaches its end with the callback invoked
\* for every payload that is not the local identity's, and the loop then starts
\* the next pass
C9_CallbackFailureNotFatal ==
    /\ gh.pass.cbFailed ~>
          (ls.pc = "sleep" /\ gh.pass.cbLog = MessageIds(SelectSeq(ls.l.payloads, NotMe)))
    /\ (ls.pc = "sleep" /\ gh.pass.cbFailed) ~> (ls.pc = "start")
\* a callback failed on its input, a later payload's callback was still invoked
C9_Witness ==
    /\ ls.pc = "sleep"
    /\ gh.pass.cbFailed
    /\ orphans = 1
    /\ Len(gh.pass.cbLog) = 2

(***************************************************************************)
(* MarmotSigner: sign_event, gift_wrap and extract_rumor called by tasks   *)
(* that share one signer and its Arc<Mutex<AuditLog>>.                     *)
(***************************************************************************)
Tasks == {"t1", "t2"}
SignerOps == {"sign_event", "gift_wrap", "extract_rumor"}
\* the argument of a call: a builder, a receiver with a rumor, a gift wrap
OpArgs(op) ==
    IF op = "sign_event" THEN {"b1", "b2"}
    ELSE IF op = "gift_wrap" THEN {"pB"}
    ELSE {"w1"}
\* calls made on one signer
MaxCalls == 2

\* the methods that record audit entries around the operation
Audited(op) == op \in {"sign_event", "gift_wrap"}
request_tag(op) == IF op = "sign_event" THEN "sign_event_request" ELSE "gift_wrap_request"
request_details(op, arg) == IF op = "sign_event" THEN "signing event" ELSE arg
success_tag(op) == IF op = "sign_event" THEN "sign_event_success" ELSE "gift_wrap_success"

\* what the operation yields when it succeeds: the signed event's id, the gift
\* wrap's id, the kind of the unwrapped rumor
Product(op, arg) ==
    IF op = "sign_event" THEN (IF arg = "b1" THEN "e1" ELSE "e2")
    ELSE IF op = "gift_wrap" THEN "gw1"
    ELSE RumorKind(arg)

\* (mutant) a remote signer that did not answer is replaced by local keys
perform_local_fallback(mode, op, arg, done) ==
    IF done \/ mode = "Bunker" THEN Ok(Product(op, arg))
    ELSE Err(IF op = "sign_event" THEN "Failed to sign event with local keys"
             ELSE IF op = "gift_wrap" THEN "Failed to create gift-wrapped event"
             ELSE "Failed to extract rumor from gift-wrap")

\* the match on self.mode of the three methods: done holds whether the keys
\* (Direct) or the remote signer (Bunker) produced a result
perform(mode, op, arg, done) ==
    IF done THEN Ok(Product(op, arg))
    ELSE IF mode = "Direct"
         THEN Err(IF op = "sign_event" THEN "Failed to sign event with local keys"
                  ELSE IF op = "gift_wrap" THEN "Failed to create gift-wrapped event"
                  ELSE "Failed to extract rumor from gift-wrap")
         ELSE Err(IF op = "sign_event" THEN "Bunker signing failed"
                  ELSE IF op = "gift_wrap" THEN "Bunker gift-wrap failed"
                  ELSE "Bunker gift-unwrap failed")

\* a task: where it is in its call, what the call wrote to the audit file, and
\* whether a write of the call was lost to an I/O failure
\* (performed: what the keys or the remote signer made of the operation)
\* (said: the details written with each entry of wrote; batch, items, k, events
\* and bres: the sign_events call the task is in, its builders, the index of the
\* builder being signed, the events pushed so far and its result)
Idle == [pc |-> "idle", op |-> "", arg |-> "", res |-> Err(""), wrote |-> <<>>,
         lost |-> FALSE, performed |-> NoneV, said |-> <<>>,
         batch |-> FALSE, items |-> <<>>, k |-> 0, events |-> <<>>,
         bres |-> Err("")]

InitSigner ==
    /\ inodes = NoFiles
    /\ dir = [p \in {"final", "tmp"} |-> 0]
    /\ clock = 1
    /\ auditFile = <<>>
    /\ stored = NoneV
    /\ ConfigIdle
    /\ ResolveIdle
    /\ PipeIdle
    /\ GroupIdle
    /\ sg \in {[mode |-> m, enabled |-> TRUE, calls |-> 0, t |-> [t \in Tasks |-> Idle],
                  new |-> IF m = "Direct" THEN Ok(Signer("Direct", Me)) ELSE Err("running"),
                  newLost |-> FALSE] :
                 m \in {"Direct", "Bunker"}}
    /\ lock = "free"

\* MarmotSigner::new for a bunker, after the save: the bunker_connect entry
\* under the audit lock, then Ok(Self)
Construct ==
    /\ sg.new = Err("running")
    /\ lock = "free"
    /\ \E ioOk \in BOOLEAN :
          /\ auditFile' = record(auditFile, sg.enabled, clock, "bunker_connect", Me, ioOk)
          /\ sg' = [sg EXCEPT !.new = IF after_record(ioOk) THEN Ok(Signer("Bunker", Me))
                                       ELSE Err("audit log"),
                              !.newLost = ~ioOk]
    /\ UNCHANGED lock
    /\ UNCHANGED <<cfgVars, pipeVars, gr>>

\* a task calls one of the three methods
Call(t) ==
    /\ sg.new.ok
    /\ sg.t[t].pc = "idle"
    /\ sg.calls < MaxCalls
    /\ \E op \in SignerOps : \E arg \in OpArgs(op) :
          sg' = [sg EXCEPT !.calls = @ + 1,
                           !.t[t] = [Idle EXCEPT !.op = op, !.arg = arg,
                                        !.pc = IF Audited(op) THEN "lock_request"
                                               ELSE "operate"]]
    /\ UNCHANGED <<lock, auditFile>>
    /\ UNCHANGED <<cfgVars, pipeVars, gr>>

\* tokio::sync::Mutex: lock() is granted when no guard is alive
mutex_grants_always(holder) == TRUE
mutex_grants(holder) == holder = "free"

\* the `}` of the block around log.record(..): the guard is dropped there
end_of_block_keeping(holder) == holder
end_of_block(holder) == "free"

\* self.audit.lock().await
Lock(t) ==
    /\ sg.t[t].pc \in {"lock_request", "lock_success"}
    /\ mutex_grants(lock)
    /\ lock' = t
    /\ sg' = [sg EXCEPT !.t[t].pc = IF @ = "lock_request" THEN "record_request"
                                    ELSE "record_success"]
    /\ UNCHANGED auditFile
    /\ UNCHANGED <<cfgVars, pipeVars, gr>>

\* log.record(..) and the end of the block that holds the guard
Record(t) ==
    /\ sg.t[t].pc \in {"record_request", "record_success"}
    /\ lock = t
    /\ LET c == sg.t[t]
           request == c.pc = "record_request"
           tag == IF request THEN request_tag(c.op) ELSE success_tag(c.op)
           details == IF request THEN request_details(c.op, c.arg) ELSE Val(c.res)
       IN \E ioOk \in BOOLEAN :
             /\ auditFile' = record(auditFile, sg.enabled, clock, tag, details, ioOk)
             /\ sg' = [sg EXCEPT !.t[t].pc = IF ~after_record(ioOk) THEN "done"
                                               ELSE IF request THEN "operate" ELSE "done",
                                 !.t[t].res = IF after_record(ioOk) THEN @
                                              ELSE Err("audit log"),
                                 !.t[t].wrote = IF ioOk THEN Append(@, tag) ELSE @,
                                 !.t[t].said = IF ioOk THEN Append(@, details) ELSE @,
                                 !.t[t].lost = @ \/ ~ioOk]
    /\ lock' = end_of_block(t)
    /\ UNCHANGED <<cfgVars, pipeVars, gr>>

\* the operation itself, with the keys or by a round trip to the remote signer
Operate(t) ==
    /\ sg.t[t].pc = "operate"
    /\ LET c == sg.t[t]
       IN \E done \in BOOLEAN :
             LET res == perform(sg.mode, c.op, c.arg, done)
             IN sg' = [sg EXCEPT !.t[t].res = res,
                                 !.t[t].performed = Some(done),
                                 !.t[t].pc = IF res.ok /\ Audited(c.op)
                                             THEN "lock_success" ELSE "done"]
    /\ UNCHANGED <<lock, auditFile>>
    /\ UNCHANGED <<cfgVars, pipeVars, gr>>

\* the method has returned to its caller
Return(t) ==
    /\ sg.t[t].pc = "done"
    /\ ~sg.t[t].batch
    /\ sg' = [sg EXCEPT !.t[t] = Idle]
    /\ UNCHANGED <<lock, auditFile>>
    /\ UNCHANGED <<cfgVars, pipeVars, gr>>

\* time passes
Tick ==
    /\ clock < MaxClock
    /\ clock' = clock + 1
    /\ UNCHANGED <<inodes, dir, w, rd, rq, stored>>
    /\ UNCHANGED <<auditFile, pipeVars, sgnVars, gr>>

\* the builders handed to sign_events
MaxBatch == 2
Builders == SeqsUpTo(OpArgs("sign_event"), MaxBatch)
\* format!("count: {}", count)
CountDetails(count) ==
    CASE count = 0 -> "count: 0"
      [] count = 1 -> "count: 1"
      [] count = 2 -> "count: 2"
      [] count = 3 -> "count: 3"
      [] OTHER -> "count: 4"

\* the `?` on sign_event's result in the loop of sign_events: whether the loop
\* goes on to push the event
batch_continues_always(res) == TRUE
batch_continues(res) == res.ok

\* where sign_events goes with builder k of the call c: into sign_event for it,
\* or past the loop to the sign_batch_complete entry
BatchAt(c, k) ==
    IF k <= Len(c.items)
    THEN [c EXCEPT !.k = k, !.op = "sign_event", !.arg = c.items[k],
                   !.performed = NoneV, !.res = Err(""), !.pc = "lock_request"]
    ELSE [c EXCEPT !.k = k, !.pc = "lock_batch_complete"]

\* the task that signs in batches calls sign_events
CallBatch(t) ==
    /\ sg.new.ok
    /\ t = "t1"
    /\ sg.t[t].pc = "idle"
    /\ sg.calls < MaxCalls
    /\ \E builders \in Builders :
          sg' = [sg EXCEPT !.calls = @ + 1,
                           !.t[t] = [Idle EXCEPT !.batch = TRUE, !.items = builders,
                                                 !.pc = "lock_batch_request"]]
    /\ UNCHANGED <<lock, auditFile>>
    /\ UNCHANGED <<cfgVars, pipeVars, gr>>

\* sign_events: self.audit.lock().await of its own two entries
BatchLock(t) ==
    /\ sg.t[t].pc \in {"lock_batch_request", "lock_batch_complete"}
    /\ lock = "free"
    /\ lock' = t
    /\ sg' = [sg EXCEPT !.t[t].pc = IF @ = "lock_batch_request"
                                    THEN "record_batch_request"
                                    ELSE "record_batch_complete"]
    /\ UNCHANGED auditFile
    /\ UNCHANGED <<cfgVars, pipeVars, gr>>

\* sign_events: the sign_batch_request entry, then the loop; the
\* sign_batch_complete entry, then Ok(events)
BatchRecord(t) ==
    /\ sg.t[t].pc \in {"record_batch_request", "record_batch_complete"}
    /\ lock = t
    /\ LET c == sg.t[t]
           request == c.pc = "record_batch_request"
           tag == IF request THEN "sign_batch_request" ELSE "sign_batch_complete"
           details == CountDetails(Len(c.items))
       IN \E ioOk \in BOOLEAN :
             LET noted == [c EXCEPT !.wrote = IF ioOk THEN Append(@, tag) ELSE @,
                                    !.said = IF ioOk THEN Append(@, details) ELSE @,
                                    !.lost = @ \/ ~ioOk]
             IN /\ auditFile' = record(auditFile, sg.enabled, clock, tag, details, ioOk)
                /\ sg' = [sg EXCEPT !.t[t] =
                             IF ~after_record(ioOk)
                             THEN [noted EXCEPT !.pc = "batch_done",
                                                !.bres = Err("audit log")]
                             ELSE IF request THEN BatchAt(noted, 1)
                             ELSE [noted EXCEPT !.pc = "batch_done",
                                                !.bres = Ok(c.events)]]
    /\ lock' = end_of_block(t)
    /\ UNCHANGED <<cfgVars, pipeVars, gr>>

\* sign_events: events.push(self.sign_event(builder).await?), and the next
\* builder
BatchNext(t) ==
    /\ sg.t[t].pc = "done"
    /\ sg.t[t].batch
    /\ LET c == sg.t[t]
       IN sg' = [sg EXCEPT !.t[t] =
                    IF batch_continues(c.res)
                    THEN BatchAt([c EXCEPT !.events =
                                     IF c.res.ok THEN Append(@, Val(c.res)) ELSE @],
                                 c.k + 1)
                    ELSE [c EXCEPT !.pc = "batch_done", !.bres = Err(c.res.err)]]
    /\ UNCHANGED <<lock, auditFile>>
    /\ UNCHANGED <<cfgVars, pipeVars, gr>>

\* sign_events has returned to its caller
BatchReturn(t) ==
    /\ sg.t[t].pc = "batch_done"
    /\ sg' = [sg EXCEPT !.t[t] = Idle]
    /\ UNCHANGED <<lock, auditFile>>
    /\ UNCHANGED <<cfgVars, pipeVars, gr>>

NextBatch ==
    \/ Construct
    \/ \E t \in Tasks : CallBatch(t)
    \/ \E t \in Tasks : BatchLock(t)
    \/ \E t \in Tasks : BatchRecord(t)
    \/ \E t \in Tasks : Lock(t)
    \/ \E t \in Tasks : Record(t)
    \/ \E t \in Tasks : Operate(t)
    \/ \E t \in Tasks : BatchNext(t)
    \/ \E t \in Tasks : BatchReturn(t)

SpecBatch == InitSigner /\ [][NextBatch]_vars

\* one process from MarmotCli::new on: the config file as the commands of
\* SpecConfig leave it, the signer not yet built
InitBroker ==
    /\ inodes = <<>>
    /\ dir = NoFiles
    /\ clock = 1
    /\ auditFile = <<>>
    /\ stored = NoneV
    /\ w = WIdle
    /\ rd = [pc |-> "off"]
    /\ ResolveIdle
    /\ PipeIdle
    /\ GroupIdle
    /\ sg = [mode |-> "unset", enabled |-> TRUE, calls |-> 0,
             t |-> [t \in Tasks |-> Idle], new |-> Err("running"), newLost |-> FALSE]
    /\ lock = "free"

\* MarmotCli::new is called, once the signer is not built yet
BrokerNew ==
    /\ ~sg.new.ok
    /\ NewSigner

\* MarmotCli::new has its signer: the callers share it from here on
BrokerShared ==
    /\ ~sg.new.ok
    /\ w.cmd = "new" /\ w.pc = "done" /\ w.res.ok
    /\ sg' = [sg EXCEPT !.new = w.res, !.mode = Val(w.res).mode]
    /\ UNCHANGED <<lock, auditFile>>
    /\ UNCHANGED <<cfgVars, pipeVars, gr>>

NextBroker ==
    \/ BrokerNew
    \/ SaveCreate \/ SaveWrite \/ SaveRename \/ SaveChmod \/ AuditConnect
    \/ BrokerShared
    \/ \E t \in Tasks : Call(t)
    \/ \E t \in Tasks : Lock(t)
    \/ \E t \in Tasks : Record(t)
    \/ \E t \in Tasks : Operate(t)
    \/ \E t \in Tasks : Return(t)

SpecBroker == InitBroker /\ [][NextBroker]_vars

NextSigner ==
    \/ Construct
    \/ \E t \in Tasks : Call(t)
    \/ \E t \in Tasks : Lock(t)
    \/ \E t \in Tasks : Record(t)
    \/ \E t \in Tasks : Operate(t)
    \/ \E t \in Tasks : Return(t)
    \/ Tick

SpecSigner == InitSigner /\ [][NextSigner]_vars

\* the request and success entries a method is to write
RequestEntryOf(op) ==
    IF op = "sign_event" THEN "sign_event_request"
    ELSE IF op = "gift_wrap" THEN "gift_wrap_request"
    ELSE "extract_rumor_request"
SuccessEntryOf(op) ==
    IF op = "sign_event" THEN "sign_event_success"
    ELSE IF op = "gift_wrap" THEN "gift_wrap_success"
    ELSE "extract_rumor_success"

\* C10: every call of sign_event, gift_wrap and extract_rumor, none of whose
\* audit writes was lost, has written its request entry before the operation
\* is performed, and has written a success entry when it returns if and only
\* if the operation succeeded
C10_EveryOperationAudited ==
    \A t \in Tasks :
        LET c == sg.t[t]
        IN (c.pc \in {"operate", "lock_success", "record_success", "done"} /\ ~c.lost) =>
              /\ Len(c.wrote) >= 1
              /\ c.wrote[1] = RequestEntryOf(c.op)
              /\ c.pc = "done" =>
                    (c.res.ok <=> (Len(c.wrote) = 2 /\ c.wrote[2] = SuccessEntryOf(c.op)))

\* C11: a lost audit write changes no result: a call that has returned returns
\* what the keys or the remote signer made of the operation, and a finished
\* construction returns the signer, whether or not audit writes were lost
C11_AuditFailureSwallowed ==
    /\ sg.new # Err("running") => sg.new = Ok(Signer(sg.mode, Me))
    /\ \A t \in Tasks :
          LET c == sg.t[t]
          IN c.pc = "done" =>
                /\ IsSome(c.performed)
                /\ c.res = perform(sg.mode, c.op, c.arg, Unwrap(c.performed))
\* a bunker signer built although its bunker_connect entry was lost, and a
\* sign_event that returned the event although both its entries were lost
C11_Witness ==
    /\ sg.mode = "Bunker"
    /\ sg.newLost
    /\ \E t \in Tasks :
          /\ sg.t[t].pc = "done"
          /\ sg.t[t].op = "sign_event"
          /\ sg.t[t].res = Ok("e1")
          /\ sg.t[t].wrote = <<>>
          /\ auditFile = <<>>

\* MarmotCli::new has returned a signer in bunker mode
BunkerReady ==
    /\ w.cmd = "new"
    /\ w.pc = "done"
    /\ w.res.ok
    /\ Val(w.res).mode = "Bunker"

C13_IdentityConfirmed ==
    BunkerReady => w.reply = Ok(Val(w.res).public_key)

\* a descriptor NostrConnectURI::parse reads as a bunker one
ValidBunkerDescriptor(u) ==
    /\ u.scheme = "bunker"
    /\ u.host \in PubKeys
    /\ \A i \in 1..Len(u.relays) : u.relays[i] \in RelayUrls

\* resolve has been called with a descriptor, which it hands to from_bunker_uri
ParsedUri == rq.pc = "returned" /\ IsSome(rq.uri)

\* C14: for a valid bunker descriptor from_bunker_uri succeeds when there is at
\* least one relay, with the descriptor's relays, a client secret key and no
\* user public key in the config, and fails when there is no relay
C14_ParseNeedsRelay ==
    (ParsedUri /\ ValidBunkerDescriptor(Unwrap(rq.uri))) =>
        LET u == Unwrap(rq.uri)
        IN /\ Len(u.relays) >= 1 =>
                 /\ rq.res.ok
                 /\ LET c == Unwrap(Val(rq.res).config)
                    IN /\ c.relays # <<>>
                       /\ c.relays = u.relays
                       /\ c.remote_signer_pubkey = u.host
                       /\ c.client_secret_key = GeneratedKey(clock)
                       /\ client_keys(c).ok
                       /\ c.user_pubkey = NoneV
                       /\ c.last_connected = NoneV
           /\ Len(u.relays) = 0 =>
                 /\ ~rq.res.ok
                 /\ rq.res.err = "Bunker URI must include at least one relay"
\* a descriptor with two relays has been parsed
C14_Witness ==
    /\ ParsedUri
    /\ ValidBunkerDescriptor(Unwrap(rq.uri))
    /\ Len(Unwrap(rq.uri).relays) = 2
    /\ rq.res.ok
    /\ Unwrap(Val(rq.res).config).relays = <<"r1", "r2">>

\* C15: from_bunker_uri returns no config for a nostrconnect:// descriptor nor
\* for a string that is not a descriptor, and the call writes no file
C15_ParseRejectsOthers ==
    [][(rq.pc = "call" /\ rq'.pc = "returned" /\ IsSome(rq.uri)
        /\ Unwrap(rq.uri).scheme # "bunker") =>
            /\ ~rq'.res.ok
            /\ Unwrap(rq.uri).scheme = "nostrconnect"
               /\ NostrConnectURIParse(Unwrap(rq.uri)).ok =>
                  rq'.res.err = "Expected bunker:// URI, got nostrconnect:// URI"
            /\ Unwrap(rq.uri).scheme = "other" =>
                  rq'.res.err = "Invalid bunker:// URI format"
            /\ inodes' = inodes /\ dir' = dir]_vars
\* a well-formed nostrconnect:// descriptor with a relay has been refused
C15_Witness ==
    /\ ParsedUri
    /\ Unwrap(rq.uri).scheme = "nostrconnect"
    /\ NostrConnectURIParse(Unwrap(rq.uri)).ok
    /\ Len(Unwrap(rq.uri).relays) = 1
    /\ ~rq.res.ok

\* config.save(db_path) has returned Ok(())
Saved == w.cmd = "save" /\ w.pc = "done" /\ w.res.ok

\* C16: after save(c) has returned, load on the same path yields c, equal in all
\* seven fields, whether load is computed on the files or run step by step
\* with c in place throughout; and the document of the loaded config is the
\* stored document
C16_SaveLoadRoundTrip ==
    /\ Saved =>
          /\ load(inodes, dir) = Ok(w.cfg)
          /\ Serialize(Unwrap(Val(load(inodes, dir)))) = inodes[dir["final"]].content
    /\ \A c \in SaveConfigs :
          (rd.pc = "returned" /\ rd.cands = {Some(c)}) => rd.res = Ok(Some(c))
\* the config of a finished connection was saved and a load begun after the
\* save has returned it
C16_Witness ==
    /\ Saved
    /\ IsSome(Unwrap(w.cfg).user_pubkey)
    /\ IsSome(Unwrap(w.cfg).last_connected)
    /\ rd.pc = "returned"
    /\ rd.cands = {w.cfg}
    /\ rd.res = Ok(w.cfg)

\* resolve was called with neither descriptor nor nsec: it calls load
LoadedByResolve == rq.pc = "returned" /\ rq.uri = NoneV /\ rq.nsec = NoneV

\* C17: load yields Ok(None) when there is no file, the config when the file is
\* a well-formed document and an error when it is malformed, as seen in the
\* result of the resolve that called it; and the file is as it was before
C17_LoadThreeWay ==
    rq.pc = "returned" =>
        /\ rq.stored.kind = "absent" =>
              /\ load(inodes, dir) = Ok(NoneV)
              /\ LoadedByResolve => rq.res = Err(NoCredentials)
              /\ dir = NoFiles /\ inodes = <<>>
        /\ rq.stored.kind = "config" =>
              /\ load(inodes, dir) = Ok(rq.stored.cfg)
              /\ LoadedByResolve => rq.res = Ok(Bunker(Unwrap(rq.stored.cfg)))
        /\ rq.stored.kind = "truncated" =>
              /\ load(inodes, dir) = Err("Failed to parse bunker config")
              /\ LoadedByResolve => rq.res = Err("Failed to parse bunker config")
        /\ rq.stored.kind # "absent" =>
              /\ dir = [NoFiles EXCEPT !["final"] = 1]
              /\ inodes = <<FileWith(StoredContent(rq.stored))>>
\* a load of a document cut short has returned its error
C17_Witness ==
    /\ LoadedByResolve
    /\ rq.stored.kind = "truncated"
    /\ rq.res = Err("Failed to parse bunker config")
    /\ Exists(dir, "final")

-----------------------------------------------------------------------------
(* resolve_group_id: a group named by a prefix of one of its two identifiers *)

\* hex::encode: two lowercase digits per byte, high nibble first
HexDigits == <<"0", "1", "2", "3", "4", "5", "6", "7",
               "8", "9", "a", "b", "c", "d", "e", "f">>
RECURSIVE hex_encode(_)
hex_encode(bytes) ==
    IF bytes = <<>> THEN <<>>
    ELSE <<HexDigits[(Head(bytes) \div 16) + 1], HexDigits[(Head(bytes) % 16) + 1]>>
         \o hex_encode(Tail(bytes))

\* char::to_lowercase over the characters a prefix is typed from
LowerOf(ch) ==
    CASE ch = "A" -> "a"
      [] ch = "Z" -> "z"
      [] OTHER -> ch
\* str::to_lowercase
to_lowercase(str) == [i \in DOMAIN str |-> LowerOf(str[i])]
\* str::starts_with
starts_with(str, prefix) ==
    /\ Len(prefix) <= Len(str)
    /\ SubSeq(str, 1, Len(prefix)) = prefix

\* the groups the engine may hold: identifiers are byte strings
Group(mls, nostr) == [mls_group_id |-> mls, nostr_group_id |-> nostr]
GroupPool ==
    { Group(<<170, 17>>, <<18, 170>>),    \* aa11 / 12aa
      Group(<<170, 34>>, <<18, 34>>),     \* aa22 / 1222
      Group(<<33, 161>>, <<33, 162>>) }   \* 21a1 / 21a2
\* the characters of a typed prefix
PrefixChars == {"a", "A", "1", "2", "Z"}

\* lists of distinct groups, as get_groups returns them
GroupLists(n) ==
    { l \in SeqsUpTo(GroupPool, n) :
        \A i, j \in DOMAIN l : l[i] = l[j] => i = j }

\* the filter of resolve_group_id with a tie-break: the first match wins
resolve_group_id_first_match(groups, partial) ==
    IF ~groups.ok THEN Err(groups.err)
    ELSE
        LET partial_lower == to_lowercase(partial)
            matches == SelectSeq(Val(groups), LAMBDA g :
                           \/ starts_with(hex_encode(g.mls_group_id), partial_lower)
                           \/ starts_with(hex_encode(g.nostr_group_id), partial_lower))
        IN  IF Len(matches) = 0 THEN Err("No group found matching")
            ELSE Ok(matches[1].mls_group_id)

\* MarmotCli::resolve_group_id
resolve_group_id(groups, partial) ==
    IF ~groups.ok THEN Err(groups.err)
    ELSE
        LET partial_lower == to_lowercase(partial)
            matches == SelectSeq(Val(groups), LAMBDA g :
                           \/ starts_with(hex_encode(g.mls_group_id), partial_lower)
                           \/ starts_with(hex_encode(g.nostr_group_id), partial_lower))
        IN  CASE Len(matches) = 0 -> Err("No group found matching")
              [] Len(matches) = 1 -> Ok(matches[1].mls_group_id)
              [] OTHER -> Err("Use a longer prefix to disambiguate")

InitGroup ==
    /\ inodes = NoFiles
    /\ dir = [p \in {"final", "tmp"} |-> 0]
    /\ clock = 1
    /\ stored = NoneV
    /\ ConfigIdle
    /\ ResolveIdle
    /\ PipeIdle
    /\ SignerIdle
    /\ auditFile = <<>>
    /\ gr \in [pc : {"called"},
               groups : {Ok(l) : l \in GroupLists(MaxGroups)} \cup {Err("get_groups")},
               partial : SeqsUpTo(PrefixChars, MaxPrefix),
               res : {Err("running")}]

\* the call runs to its return
ResolveGroup ==
    /\ gr.pc = "called"
    /\ gr' = [gr EXCEPT !.pc = "returned",
                        !.res = resolve_group_id(gr.groups, gr.partial)]
    /\ UNCHANGED <<cfgVars, auditFile, pipeVars, sgnVars>>

NextGroup == ResolveGroup
SpecGroup == InitGroup /\ [][NextGroup]_vars

\* a character of an identifier and a character of the prefix that differ at
\* most in case
SameLetter(a, b) ==
    \/ a = b
    \/ {a, b} = {"a", "A"}
    \/ {a, b} = {"z", "Z"}
\* the hexadecimal text of an identifier starts with p, case aside
HexStartsWith(id, p) ==
    LET h == hex_encode(id)
    IN  /\ Len(p) <= Len(h)
        /\ \A i \in 1..Len(p) : SameLetter(h[i], p[i])
\* the groups of the list that p names, through either identifier
Matching(l, p) ==
    { g \in {l[i] : i \in DOMAIN l} :
        HexStartsWith(g.mls_group_id, p) \/ HexStartsWith(g.nostr_group_id, p) }

\* C18: resolve_group_id returns a group's handle exactly when that group is the
\* only one either of whose identifiers starts with the prefix (case aside), a
\* not-found error exactly when none does, and an ambiguity error exactly when
\* two or more groups do; a group named through both identifiers counts once
C18_UniquePrefixMatch ==
    (gr.pc = "returned" /\ gr.groups.ok) =>
        LET M == Matching(Val(gr.groups), gr.partial)
        IN  /\ \A g \in GroupPool :
                  gr.res = Ok(g.mls_group_id) <=> M = {g}
            /\ gr.res.ok <=> Cardinality(M) = 1
            /\ gr.res = Err("No group found matching") <=> M = {}
            /\ gr.res = Err("Use a longer prefix to disambiguate")
                  <=> Cardinality(M) >= 2
\* an upper-case prefix that names one group through both of its identifiers,
\* in a list of three, has resolved to that group
C18_Witness ==
    /\ gr.pc = "returned"
    /\ gr.groups.ok
    /\ Len(Val(gr.groups)) = 3
    /\ gr.partial = <<"2", "1", "A">>
    /\ gr.res = Ok(<<33, 161>>)

-----------------------------------------------------------------------------
(* Acceptance of invitations *)

\* the step is one accept-welcome command, run for the event id `named`
ExplicitAccept(named) ==
    /\ Len(gh'.accepts) = Len(gh.accepts) + 1
    /\ SubSeq(gh'.accepts, 1, Len(gh.accepts)) = gh.accepts
    /\ gh'.accepts[Len(gh'.accepts)].named = named
    /\ ls' = ls
\* some pass has handed w1 to process_welcome, which stored it
Invited == "w1" \in eng.welcomes

\* C19: no step of a pass (Receive or Listen) accepts an invitation: whenever
\* the set of accepted invitations changes, the step is an accept-welcome
\* command and the one invitation added is the stored invitation it named
C19_AcceptOnlyExplicit ==
    [][eng'.accepted # eng.accepted =>
          \E id \in eng.welcomes :
             /\ ExplicitAccept(id)
             /\ eng'.accepted = eng.accepted \cup {id}]_vars
\* a Listen pass stored the invitation w1, listed it as pending and returned,
\* and a later pass met it again, without any accept-welcome command: it is
\* still not accepted
C19_Witness ==
    /\ ls.cmd = "listen"
    /\ ls.pc = "returned"
    /\ \E k \in DOMAIN gh.pass.tried : gh.pass.tried[k] = Did("w1", "repeated")
    /\ gh.accepts = <<>>
    /\ Invited
    /\ eng.accepted = {}

-----------------------------------------------------------------------------
(* Order of the engine calls of one pass *)

\* the group whose relay filter an envelope answers
GroupOf(id) == CHOOSE g \in {GroupList[k] : k \in DOMAIN GroupList} : id \in GroupMsgs(g)
\* the place of a group in the list get_groups returned to this pass
PlaceOf(g) == CHOOSE k \in DOMAIN ls.l.groups : ls.l.groups[k] = g
\* the envelopes process_message has stored as application messages, in the
\* order they were handed to it
Delivered == SelectSeq(gh.pass.fed, LAMBDA d : d.what = "ApplicationMessage")

\* C20: in one pass no group message is fetched or processed before every
\* fetched gift wrap has been handled; the groups are taken in get_groups
\* order, one after the other, each group's envelopes in the order fetched; and
\* the payload list names the delivered messages, with their groups, in the
\* order they were processed
C20_PassOrder ==
    /\ [](InPass =>
            /\ (gh.pass.fetched # <<>> \/ gh.pass.fed # <<>>) =>
                  Ids(gh.pass.tried) = gh.pass.gw
            /\ Ids(gh.pass.fed) = SubSeq(gh.pass.fetched, 1, Len(gh.pass.fed))
            /\ \A j, k \in DOMAIN gh.pass.fetched :
                  j < k => PlaceOf(GroupOf(gh.pass.fetched[j]))
                              <= PlaceOf(GroupOf(gh.pass.fetched[k]))
            /\ \A k \in DOMAIN gh.pass.fetched :
                  PlaceOf(GroupOf(gh.pass.fetched[k])) <= ls.l.g
            /\ Len(ls.l.payloads) = Len(Delivered)
            /\ \A k \in DOMAIN ls.l.payloads :
                  /\ ls.l.payloads[k].message_id = Delivered[k].id
                  /\ ls.l.payloads[k].group_id = GroupOf(Delivered[k].id))
    /\ [][Len(gh.pass.tried') > Len(gh.pass.tried) =>
            gh.pass.fetched = <<>> /\ gh.pass.fed = <<>>]_vars
    /\ [][Len(gh.pass.fed') > Len(gh.pass.fed) =>
            /\ gh.pass.tried' = gh.pass.tried
            /\ gh.pass.fetched' = gh.pass.fetched
            /\ SubSeq(gh.pass.fed', 1, Len(gh.pass.fed)) = gh.pass.fed
            /\ ls.l.groups[ls.l.g] = GroupOf(gh.pass.fed'[Len(gh.pass.fed')].id)]_vars
\* a pass that handled the invitation w1, then fed m2 and m1 of g1 and n1 of g2
\* in that order, has returned the payloads of m2 and n1
C20_Witness ==
    /\ ls.pc = "returned"
    /\ gh.pass.tried = <<Did("w1", "welcomed")>>
    /\ Ids(gh.pass.fed) = <<"m2", "m1", "n1">>
    /\ MessageIds(ls.l.payloads) = <<"m2", "n1">>

-----------------------------------------------------------------------------
(* Failure of the remote signer *)

\* the remote signer did not answer the request of task t's call
RemoteFailed(t) == sg.mode = "Bunker" /\ sg.t[t].performed = Some(FALSE)

\* C21: in Bunker mode a call whose request to the remote signer failed has
\* returned an error that carries no event, gift wrap or rumor, and has written
\* no success entry: the audit file grows by no success entry in that call
C21_NoLocalFallback ==
    /\ [](\A t \in Tasks :
            RemoteFailed(t) =>
               /\ sg.t[t].pc = "done"
               /\ ~sg.t[t].res.ok
               /\ sg.t[t].res.val = <<>>
               /\ \A k \in DOMAIN sg.t[t].wrote :
                     sg.t[t].wrote[k] # success_tag(sg.t[t].op))
    /\ [][\A t \in Tasks :
            (RemoteFailed(t) /\ sg'.t[t] # sg.t[t]) =>
               /\ sg'.t[t] = Idle
               /\ auditFile' = auditFile]_vars
\* a sign_event, a gift_wrap or an extract_rumor of a Bunker signer has returned
\* the remote signer's failure; here a gift_wrap whose request entry is written
C21_Witness ==
    /\ sg.mode = "Bunker"
    /\ \E t \in Tasks :
          /\ RemoteFailed(t)
          /\ sg.t[t].op = "gift_wrap"
          /\ sg.t[t].res = Err("Bunker gift-wrap failed")
          /\ sg.t[t].wrote = <<"gift_wrap_request">>

-----------------------------------------------------------------------------
(* Batch signing *)

\* an audit entry as its operation and details
Line(operation, details) == <<operation, details>>
\* what a call has written, entry by entry
Written(c) == [j \in DOMAIN c.wrote |-> Line(c.wrote[j], c.said[j])]
\* the request and success entries of the first m builders, in input order
RECURSIVE ItemLines(_, _)
ItemLines(items, m) ==
    IF m = 0 THEN <<>>
    ELSE ItemLines(items, m - 1)
         \o <<Line("sign_event_request", "signing event"),
              Line("sign_event_success", Product("sign_event", items[m]))>>
\* the entries of a batch that signs every builder
BatchLines(items) ==
    <<Line("sign_batch_request", CountDetails(Len(items)))>>
    \o ItemLines(items, Len(items))
    \o <<Line("sign_batch_complete", CountDetails(Len(items)))>>
IsPrefix(a, b) == Len(a) <= Len(b) /\ SubSeq(b, 1, Len(a)) = a
\* the call is inside sign_event for builder k
InItem(c) ==
    c.pc \in {"lock_request", "record_request", "operate",
              "lock_success", "record_success", "done"}

-----------------------------------------------------------------------------
(* One writer at a time *)

\* the tasks inside log.record, the audit guard alive
Recording == {t \in Tasks : sg.t[t].pc \in {"record_request", "record_success"}}
\* the saves of the config file in progress
Savers == IF w.pc \in {"save_create", "save_write", "save_rename", "save_chmod"}
          THEN {"new"} ELSE {}

\* C23: among the callers of one signer at most one is inside an audit record
\* at a time, and it holds the audit mutex; every line added to the audit file
\* is added by that holder or by the construction before the signer is shared;
\* and the config file is written only by the one save of the construction,
\* which has ended before any caller starts
C23_OneWriterAtATime ==
    /\ [](/\ Cardinality(Recording) <= 1
          /\ Recording \subseteq {lock}
          /\ Cardinality(Savers) <= 1
          /\ (Savers # {} \/ w.pc = "audit") =>
                /\ ~sg.new.ok
                /\ \A t \in Tasks : sg.t[t] = Idle)
    /\ [][auditFile' # auditFile =>
            \/ w.pc = "audit" /\ Recording = {}
            \/ lock \in Recording /\ lock' = "free"]_vars
    /\ [][<<inodes, dir>>' # <<inodes, dir>> =>
            /\ Savers # {} /\ Recording = {}
            /\ sg' = sg /\ ~sg.new.ok]_vars
\* the signer of a saved bunker config is shared by two callers: one is inside
\* its audit record, the other waits for the mutex
C23_Witness ==
    /\ sg.new.ok /\ sg.mode = "Bunker"
    /\ Exists(dir, "final")
    /\ sg.t["t1"].pc = "record_success"
    /\ sg.t["t2"].pc = "lock_request"
    /\ lock = "t1"

-----------------------------------------------------------------------------
(* Permissions of the config file *)

\* the mode of the file at the final path: "0600" once set_permissions has run
\* on it, "default" (0o666 masked by the process umask, 0644 under the usual
\* umask 022) for a file fs::write created
FinalMode == inodes[dir["final"]].mode

\* C24: whatever step a save is at, and after it, a config file at the final
\* path is accessible to its owner only
C24_NeverWiderThanOwner ==
    Exists(dir, "final") => FinalMode = "0600"

-----------------------------------------------------------------------------
(* Callback subprocesses *)

\* the callback subprocesses that exist: the one invoke_callback is writing to
\* or waiting for, and those it left behind without waiting
Children == orphans + (IF ls.pc \in {"cb_write", "cb_wait"} THEN 1 ELSE 0)

\* C25: at most one callback subprocess exists at any moment, and none exists
\* while the dispatch loop is between two callbacks, while the loop sleeps or
\* while a pass runs
C25_OneCallbackAtATime ==
    /\ Children <= 1
    /\ ls.pc \notin {"cb_write", "cb_wait"} => Children = 0

-----------------------------------------------------------------------------
(* SpecAudit: a sequence of record calls on one AuditLog *)

\* record calls made on the log
MaxRecords == 3
\* operations and details the calls carry (those of test_audit_log_writes among
\* them)
RecordOps == {"test_op", "test_op2"}
RecordDetails == {"test details", "more details"}

InitAudit ==
    /\ inodes = NoFiles
    /\ dir = [p \in {"final", "tmp"} |-> 0]
    /\ clock = 1
    /\ auditFile = <<>>
    /\ stored = NoneV
    /\ ConfigIdle
    /\ ResolveIdle
    /\ PipeIdle
    /\ GroupIdle
    /\ sg \in {[pc |-> "audit", enabled |-> e, calls |-> <<>>] : e \in BOOLEAN}
    /\ lock = "free"

\* log.record(operation, details); the call and whether its write went through
\* are kept in sg.calls
AuditRecord ==
    /\ Len(sg.calls) < MaxRecords
    /\ \E operation \in RecordOps, details \in RecordDetails, ioOk \in BOOLEAN :
          /\ auditFile' = record(auditFile, sg.enabled, clock, operation, details, ioOk)
          /\ sg' = [sg EXCEPT !.calls = Append(@, [now |-> clock, operation |-> operation,
                                                   details |-> details, ioOk |-> ioOk])]
    /\ UNCHANGED lock
    /\ UNCHANGED <<cfgVars, pipeVars, gr>>

NextAudit ==
    \/ AuditRecord
    \/ Tick
SpecAudit == InitAudit /\ [][NextAudit]_vars

\* the calls whose write went through, in call order
Appended == SelectSeq(sg.calls, LAMBDA c : c.ioOk)

\* C26: on an enabled log the audit file holds one line per record call whose
\* write succeeded, in call order, each with that call's operation and details
\* (so exactly one line per call when every write succeeds), and a record call
\* leaves every earlier line where and as it was
C26_AppendOnly ==
    /\ [](sg.enabled =>
            /\ Len(auditFile) = Len(Appended)
            /\ \A k \in DOMAIN auditFile :
                  /\ auditFile[k].operation = Appended[k].operation
                  /\ auditFile[k].details = Appended[k].details
                  /\ auditFile[k].timestamp = Appended[k].now
            /\ (\A k \in DOMAIN sg.calls : sg.calls[k].ioOk) =>
                  Len(auditFile) = Len(sg.calls))
    /\ [][IsPrefix(auditFile, auditFile')]_vars
\* the two calls of test_audit_log_writes have been made and written
C26_Witness ==
    /\ sg.enabled
    /\ Len(sg.calls) = 2
    /\ Len(auditFile) = 2
    /\ auditFile[1].operation = "test_op" /\ auditFile[1].details = "test details"
    /\ auditFile[2].operation = "test_op2" /\ auditFile[2].details = "more details"

-----------------------------------------------------------------------------
(* Construction against a remote signer that does not answer *)

\* MarmotCli::new resolved, or failed to resolve, a bunker (a descriptor was
\* given, or no nsec was), and the remote signer answers get_public_key with
\* an error or not at all
Unreported ==
    /\ w.cmd = "new"
    /\ ~w.reply.ok
    /\ IsSome(w.args.uri) \/ w.args.nsec = NoneV

\* config.relays.first().unwrap_or(&"(none)".to_string()): the relay addresses
\* the error message of a failed get_public_key names
relays_named(relays) == IF relays = <<>> THEN <<"(none)">> ELSE <<relays[1]>>

\* the relay addresses of the config the construction was given: those of the
\* descriptor, or those of the stored config
RelaysTried ==
    IF IsSome(w.args.uri) THEN Unwrap(w.args.uri).relays
    ELSE Val(Deserialize(Unwrap(w.pre).content)).relays
GetPublicKeyFailed ==
    /\ w.cmd = "new" /\ w.pc = "done"
    /\ w.res.err = "Failed to get public key from bunker"

\* C27: a construction during which the remote signer does not report the
\* user's public key has failed with an error and returned no signer, without
\* reaching its save or its audit entry, the config file being as it was; and
\* the error of the failed get_public_key names every relay address of the
\* config
C27_UnreportedKeyFails ==
    /\ Unreported =>
          /\ w.pc = "done"
          /\ ~w.res.ok
          /\ FinalFile = w.pre
    /\ GetPublicKeyFailed =>
          \A k \in DOMAIN RelaysTried :
             \E j \in DOMAIN relays_named(RelaysTried) :
                relays_named(RelaysTried)[j] = RelaysTried[k]

-----------------------------------------------------------------------------
(* Callbacks across the passes of a session *)

\* the step calls invoke_callback for the message id
Invokes(id) ==
    /\ Len(gh'.pass.cbLog) = Len(gh.pass.cbLog) + 1
    /\ gh'.pass.cbLog[Len(gh'.pass.cbLog)] = id

\* C28: in one Listen session invoke_callback is called at most once for a
\* message id, whatever the passes fetch again: a step that calls it does so for
\* an id it has not been called for before, which the engine consumed in this
\* very pass
C28_CallbackOncePerMessage ==
    /\ [][\A id \in gh'.called : 
            Invokes(id) => id \notin gh.called /\ id \in eng.seen]_vars
    /\ [](/\ gh.called \subseteq eng.seen
          /\ \A j, k \in DOMAIN gh.pass.cbLog :
                gh.pass.cbLog[j] = gh.pass.cbLog[k] => j = k)
\* a later pass of the session has fetched m1 again and fed it to the engine
\* after the callback was invoked for it in an earlier pass
C28_Witness ==
    /\ ls.cmd = "listen"
    /\ "m1" \in gh.called
    /\ gh.pass.cbLog = <<>>
    /\ \E k \in DOMAIN gh.pass.fed : gh.pass.fed[k].id = "m1"
    /\ ls.pc = "returned"

-----------------------------------------------------------------------------
(* Delivery of consumed messages to the callback *)

\* the sessions of SpecListen, the command's thread being scheduled as long as
\* it has a step to take
SpecListenGroupsFair == InitListen /\ [][NextListen]_vars /\ WF_vars(LoopStep)

\* a Listen session with a callback holds, in the pass it is in, a payload of a
\* message of another author: process_message returned ApplicationMessage for it
DeliveredForeign(id) ==
    /\ ls.cmd = "listen" /\ IsSome(ls.script)
    /\ \E k \in DOMAIN ls.l.payloads :
          /\ ls.l.payloads[k].message_id = id
          /\ ~ls.l.payloads[k].is_me

\* C29: in a Listen session with a callback, every message of another author
\* that the engine has delivered is eventually handed to invoke_callback
C29_DeliveredEventuallyCalled ==
    \A id \in {"m1", "m2", "n1"} :
        DeliveredForeign(id) ~> (id \in gh.called)

-----------------------------------------------------------------------------
(* The remote-signer link of an existing config *)

\* two configs hold the same link: the same remote signer and the same client
\* secret key
SameLink(a, b) ==
    /\ a.remote_signer_pubkey = b.remote_signer_pubkey
    /\ a.client_secret_key = b.client_secret_key

\* a step puts another link in place of the one of the config at the final path
LinkReplaced ==
    /\ IsSome(stored) /\ IsSome(stored')
    /\ ~SameLink(Unwrap(stored), Unwrap(stored'))

\* C30: once a config file exists, no step of broker construction, of init
\* with a bunker URI or of migration puts a config with another remote signer
\* public key or another client secret key in its place; only deletion removes
\* the link
C30_LinkNeverReplaced == [][~LinkReplaced]_vars

\* the same, for the steps of one command
C30_MigrateKeepsLink == [][w.cmd = "migrate" => ~LinkReplaced]_vars
C30_InitKeepsLink == [][w.cmd = "init" => ~LinkReplaced]_vars
C30_NewKeepsLink == [][w.cmd = "new" => ~LinkReplaced]_vars

\* broker construction without an explicit URI keeps the link it loaded
C30_StoredNewKeepsLink ==
    [][(w.cmd = "new" /\ ~IsSome(w.args.uri)) => ~LinkReplaced]_vars

-----------------------------------------------------------------------------
(* The relay list of a resolved config *)

\* resolve has returned a Bunker mode
ResolvedBunker ==
    /\ rq.pc = "returned"
    /\ rq.res.ok
    /\ Val(rq.res).mode = "Bunker"

ResolvedConfig == Unwrap(Val(rq.res).config)

\* the relays of the descriptor rebuilt from a config, none when it is not built
DescriptorRelays(c) ==
    IF to_nostr_connect_uri(c).ok THEN Val(to_nostr_connect_uri(c)).relays
    ELSE <<>>

\* C31: every config resolve returns inside a Bunker mode, from an explicit URI
\* or from the stored file, has at least one relay, and so has the descriptor
\* to_nostr_connect_uri rebuilds from it
C31_ResolvedRelaysNonEmpty ==
    ResolvedBunker =>
        /\ Len(ResolvedConfig.relays) >= 1
        /\ Len(DescriptorRelays(ResolvedConfig)) >= 1

\* the same for the configs parsed from an explicit URI only
C31_FromUriRelaysNonEmpty ==
    (ResolvedBunker /\ IsSome(rq.uri)) =>
        /\ Len(ResolvedConfig.relays) >= 1
        /\ Len(DescriptorRelays(ResolvedConfig)) >= 1

\* the two parts for the configs loaded from the stored file
C31_LoadedRelaysNonEmpty ==
    (ResolvedBunker /\ ~IsSome(rq.uri)) => Len(ResolvedConfig.relays) >= 1
C31_LoadedDescriptorHasRelay ==
    (ResolvedBunker /\ ~IsSome(rq.uri) /\ Len(ResolvedConfig.relays) >= 1) =>
        Len(DescriptorRelays(ResolvedConfig)) >= 1

-----------------------------------------------------------------------------
(* The stored record across a reconnect *)

\* two configs differ in nothing but last_connected and user_pubkey
SameButConnection(a, b) ==
    /\ a.remote_signer_pubkey = b.remote_signer_pubkey
    /\ a.relays = b.relays
    /\ a.secret = b.secret
    /\ a.client_secret_key = b.client_secret_key
    /\ a.created_at = b.created_at

\* the constructor runs on the stored config: no explicit URI, no nsec
FromStored == w.cmd = "new" /\ ~IsSome(w.args.uri) /\ ~IsSome(w.args.nsec)

\* C32: when a constructor running on the stored config replaces the stored
\* record, the new record has the remote signer public key, relays, secret,
\* client secret key and created-at of the old one and the connect time as
\* last-connected,
\* and the file holds its document; and update_connected with no public key
\* keeps the user public key of the stored record
C32_ReconnectFrame ==
    /\ [][(FromStored /\ FromStored' /\ stored' # stored) =>
             /\ IsSome(stored) /\ IsSome(stored')
             /\ SameButConnection(Unwrap(stored), Unwrap(stored'))
             /\ Unwrap(stored').last_connected = Some(clock - 1)
             /\ load(inodes', dir') = Ok(stored')]_vars
    /\ [](IsSome(stored) =>
             LET c == update_connected(Unwrap(stored), NoneV, clock)
             IN /\ c.user_pubkey = Unwrap(stored).user_pubkey
                /\ SameButConnection(Unwrap(stored), c))

\* a signer built on the stored config of an earlier command, the record
\* rewritten with a later last-connected and its cached user public key
C32_Witness ==
    /\ FromStored /\ w.pc = "done" /\ w.res.ok
    /\ IsSome(w.pre) /\ IsSome(stored)
    /\ Deserialize(Unwrap(w.pre).content).ok
    /\ LET before == Val(Deserialize(Unwrap(w.pre).content))
       IN /\ Unwrap(stored).last_connected # before.last_connected
          /\ IsSome(before.user_pubkey)
          /\ SameButConnection(before, Unwrap(stored))

-----------------------------------------------------------------------------
(* Invalid credentials of higher priority *)

\* what resolve was given: a descriptor from_bunker_uri cannot take, an nsec
\* that does not decode, a stored file that is no complete config document
BadUri == IsSome(rq.uri) /\ ~UriWellFormed(Unwrap(rq.uri))
BadNsec == IsSome(rq.nsec) /\ Unwrap(rq.nsec).key = "bad"
BadStored == rq.stored.kind = "truncated"

\* C33: resolve returns an error when the explicit URI is invalid, whatever
\* nsec or stored config there is; when there is no URI and the nsec is
\* invalid, whatever is stored; and when neither is given and the stored file
\* is malformed, an error other than the no-credentials one
C33_NoFallThrough ==
    rq.pc = "returned" =>
        /\ BadUri => ~rq.res.ok
        /\ (~IsSome(rq.uri) /\ BadNsec) => ~rq.res.ok
        /\ (~IsSome(rq.uri) /\ ~IsSome(rq.nsec) /\ BadStored) =>
              ~rq.res.ok /\ rq.res.err # NoCredentials

\* an invalid descriptor beside a valid nsec and a valid stored config
C33_Witness ==
    /\ rq.pc = "returned"
    /\ BadUri
    /\ IsSome(rq.nsec) /\ ~BadNsec
    /\ rq.stored.kind = "config"
    /\ ~rq.res.ok

-----------------------------------------------------------------------------
(* Migration saves a verified identity only *)

\* the supplied nsec is the key of another identity than the bunker reports
IdentityMismatch ==
    /\ IsSome(w.args.nsec) /\ w.reply.ok
    /\ PublicKeyOf(Unwrap(w.args.nsec).key) # Val(w.reply)

\* C34: a migration that has reached its save holds a public key the bunker
\* reported, equal to the nsec's public key when an nsec is supplied; a
\* migration over no existing config whose connection failed or whose
\* identity does not match has ended in an error, with no config file at the
\* config path
C34_MigrateVerifiedSave ==
    w.cmd = "migrate" =>
        /\ IsSome(w.cfg) =>
              /\ w.reply.ok
              /\ Unwrap(w.cfg).user_pubkey = Some(Val(w.reply))
              /\ ~IdentityMismatch
        /\ (w.checked = Some(FALSE) /\ (~w.reply.ok \/ IdentityMismatch)) =>
              /\ w.pc = "done" /\ ~w.res.ok
              /\ ~Exists(dir, "final")
              /\ stored = NoneV

\* a migration with a valid descriptor and an nsec of another identity than
\* the bunker's, refused
C34_Witness ==
    /\ w.cmd = "migrate" /\ w.pc = "done"
    /\ UriWellFormed(Unwrap(w.args.uri))
    /\ IdentityMismatch
    /\ w.res.err = "Identity mismatch!"
    /\ ~Exists(dir, "final")

-----------------------------------------------------------------------------
(* A save that fails *)

\* the errors save returns, by the step that failed
WriteErrors == {"Failed to write bunker config temp file",
                "Failed to atomically save bunker config"}
SaveErrors == WriteErrors \cup {"set_permissions failed"}

\* the document at the final path, if any
DocOf(file) == IF IsSome(file) THEN Some(Unwrap(file).content) ELSE NoneV

\* save has returned an error of the given kind
SaveFailed(errors) == w.pc = "done" /\ ~w.res.ok /\ w.res.err \in errors

\* C35: when save has returned an error, the document at the final config path
\* is the one that was there before the call
C35_FailedSaveKeepsDocument ==
    SaveFailed(SaveErrors) => DocOf(FinalFile) = DocOf(w.pre)

\* the same for the errors of the write to the temporary file and of the rename
C35_FailedWriteKeepsDocument ==
    SaveFailed(WriteErrors) => DocOf(FinalFile) = DocOf(w.pre)

-----------------------------------------------------------------------------
(* The audit lock and the calls that wait for the signer *)

\* the callers of one signer, each in one call of sign_event, gift_wrap,
\* extract_rumor or sign_events
NextCalls ==
    \/ Construct
    \/ \E t \in Tasks : Call(t)
    \/ \E t \in Tasks : CallBatch(t)
    \/ \E t \in Tasks : Lock(t)
    \/ \E t \in Tasks : BatchLock(t)
    \/ \E t \in Tasks : Record(t)
    \/ \E t \in Tasks : BatchRecord(t)
    \/ \E t \in Tasks : Operate(t)
    \/ \E t \in Tasks : BatchNext(t)

\* the step a task takes next inside its call
TaskStep(t) ==
    \/ Lock(t) \/ BatchLock(t)
    \/ Record(t) \/ BatchRecord(t)
    \/ Operate(t) \/ BatchNext(t)

\* the runtime runs every task that stays able to take a step, and every
\* request to the signer returns
SpecCallsFair ==
    /\ InitSigner
    /\ [][NextCalls]_vars
    /\ \A t \in Tasks : WF_vars(TaskStep(t))

\* a task is inside a call; its call has returned
Completed(t) ==
    \/ sg.t[t].pc = "batch_done"
    \/ sg.t[t].pc = "done" /\ ~sg.t[t].batch
InCall(t) == sg.t[t].pc # "idle" /\ ~Completed(t)

\* the entries with a tag among the first n of the audit file
Count(tag, n) == Cardinality({i \in 1..n : auditFile[i].operation = tag})

\* no prefix of the audit file has more success entries than request entries
\* of a kind
SuccessWithinRequests ==
    \A n \in 0..Len(auditFile) :
        /\ Count("sign_event_success", n) <= Count("sign_event_request", n)
        /\ Count("gift_wrap_success", n) <= Count("gift_wrap_request", n)
        /\ Count("sign_batch_complete", n) <= Count("sign_batch_request", n)

\* no audit write has failed so far
NothingLost == ~sg.newLost /\ \A t \in Tasks : ~sg.t[t].lost

\* the lock is held by a task only from its lock().await to the end of the
\* block with its record, never while it waits for the signer
LockOnlyAroundRecord ==
    \A t \in Tasks :
        /\ lock = t => sg.t[t].pc \in {"record_request", "record_success",
                                       "record_batch_request", "record_batch_complete"}
        /\ sg.t[t].pc = "operate" => lock # t

-----------------------------------------------------------------------------
(* Envelopes that are no invitation, and the pending list *)

\* what became of an envelope that did not reach process_welcome
Skipped == {"sealed", "not a welcome"}
\* the pass has skipped an envelope
SomeSkipped == \E k \in DOMAIN gh.pass.tried : gh.pass.tried[k].what \in Skipped

\* C37: an envelope that fails to unwrap or holds another kind than an
\* invitation is skipped: the step leaves the invitation count and the engine
\* as they are and goes on with the next envelope or with phase 2; only
\* invitation envelopes ever reach process_welcome or are counted; the step
\* that lists the pending invitations goes on to the groups whether the
\* engine answers or not; and a pass that skipped an envelope and returned has
\* handled every fetched gift wrap and fed every fetched group message
C37_SkippedEnvelopeContained ==
    /\ [][(Len(gh.pass.tried') > Len(gh.pass.tried)
           /\ gh.pass.tried'[Len(gh.pass.tried')].what \in Skipped) =>
            /\ ls'.res = "none"
            /\ ls'.pc \in {"welcomes", "pending"}
            /\ ls'.l.welcomes_found = ls.l.welcomes_found
            /\ eng' = eng
            /\ gh'.counted = gh.counted]_vars
    /\ [](\A k \in DOMAIN gh.pass.tried :
            RumorKind(gh.pass.tried[k].id) # "MlsWelcome" =>
                gh.pass.tried[k].what \in Skipped)
    /\ [](\A id \in GiftWraps :
            RumorKind(id) # "MlsWelcome" =>
                gh.counted[id] = 0 /\ id \notin eng.welcomes)
    /\ [][(ls.pc = "pending" /\ ls' # ls) =>
            /\ ls'.pc = "groups" /\ ls'.res = "none"
            /\ ls'.l = ls.l
            /\ eng'.welcomes = eng.welcomes
            /\ gh' = gh]_vars
    /\ []((ls.pc = "returned" /\ SomeSkipped) =>
            /\ Ids(gh.pass.tried) = gh.pass.gw
            /\ Ids(gh.pass.fed) = gh.pass.fetched)

\* a returned pass whose first envelope, an invitation, did not unwrap and
\* whose second was no invitation, with group messages fed after them
C37_Witness ==
    /\ ls.pc = "returned"
    /\ gh.pass.tried = <<Did("w1", "sealed"), Did("x1", "not a welcome")>>
    /\ ls.l.welcomes_found = 0
    /\ eng.welcomes = {}
    /\ Len(gh.pass.fed) >= 2

====
